---- MODULE Spec2Model ----
(***************************************************************************)
(* A model of the front end of the `em` compiler: the lexer with its       *)
(* `#import` preprocessor (lexer.cpp, lexer.h), the parse-time symbol      *)
(* table (lexer.h), the operator-precedence expression parser              *)
(* (parser.cpp, parser.h) and the control-flow part of the LLVM IR         *)
(* emitter (ir_generator.cpp, ir_generator.h).                             *)
(*                                                                         *)
(* Each subsystem has its own specification (SpecParser, SpecEmit, ...);   *)
(* the variables of the other subsystems stay at their idle values.        *)
(***************************************************************************)
EXTENDS Integers, Sequences, FiniteSets, TLC

VARIABLES
    \* ---- parser (struct Lexer cursor + result of parse_ast_expression) ----
    tokens,            \* Lexer::tokens, the token vector being parsed
    curr_token_index,  \* Lexer::curr_token_index (0-based)
    ast,               \* the AST_Expression returned by parse_ast_expression
    parse_pc,          \* "idle" | "ready" | "parsed" | "error" (exit(1)) | "cursor"
    cursor_call,       \* history: the last call of a cursor operation of Lexer
    \* ---- parse-time symbol table (struct Symbol_Table, lexer.h) ----
    scope_heap,        \* the Scope objects, by address: [live, parent, child, variables]
    head_scope,        \* Symbol_Table::head_scope (0 is NULL)
    curr_scope,        \* Symbol_Table::curr_scope (0 is NULL)
    global_variables,  \* Symbol_Table::global_variables
    functions,         \* Symbol_Table::functions
    sym_pc,            \* "idle" | "run" | "crashed" (pop() with no scope)
    declared,          \* history: the names inserted in each open scope, outermost
                       \* first, and those inserted with no scope open (.globals)
    \* ---- IR emitter (emit_llvm_ir, ir_generator.cpp) ----
    program_ast,       \* the top-level expressions handed to emit_llvm_ir
    emit_index,        \* the position of emit_llvm_ir's loop in program_ast
    ir,                \* the emission state: module, builder, loop_terminals,
                       \* llvm_symbol_table and the history of what was emitted
    emit_pc,           \* "idle" | "run" | "done" | "error" (exit(1))
    \* ---- lexer (perform_lexical_analysis, lexer.cpp) ----
    files,             \* the source files that exist, by path: their lines
    lexers,            \* the activations of perform_lexical_analysis, innermost last
    lex_pc,            \* "idle" | "run" | "done" | "error" (exit(1))
    \* ---- driver (main, main.cpp) ----
    argv,              \* the files named on the command line
    make_output_file,  \* Flag_Settings::make_output_file
    file_index,        \* i of the loop of main over the files
    driver,            \* the locals of main and the history of the process
    driver_pc,         \* "idle" | "start" | "compile" | "exit"
    \* ---- hash map (struct smap, data_structures.h) ----
    table,             \* an smap: data, size and capacity
    inserted           \* history: the value of the last insert of each key

parserVars == <<tokens, curr_token_index, ast, parse_pc, cursor_call>>

symVars == <<scope_heap, head_scope, curr_scope, global_variables, functions, sym_pc, declared>>

emitVars == <<program_ast, emit_index, ir, emit_pc>>

lexVars == <<files, lexers, lex_pc>>

driverVars == <<argv, make_output_file, file_index, driver, driver_pc>>

smapVars == <<table, inserted>>

vars == <<tokens, curr_token_index, ast, parse_pc, cursor_call,
          scope_heap, head_scope, curr_scope, global_variables, functions, sym_pc, declared,
          program_ast, emit_index, ir, emit_pc,
          files, lexers, lex_pc,
          argv, make_output_file, file_index, driver, driver_pc,
          table, inserted>>

\* the variables each subsystem leaves alone
notParserVars == <<symVars, emitVars, lexVars, driverVars, smapVars>>

notSymVars == <<parserVars, emitVars, lexVars, driverVars, smapVars>>

notEmitVars == <<parserVars, symVars, lexVars, driverVars, smapVars>>

notLexVars == <<parserVars, symVars, emitVars, driverVars, smapVars>>

notDriverVars == <<parserVars, symVars, emitVars, lexVars, smapVars>>

notSmapVars == <<parserVars, symVars, emitVars, lexVars, driverVars>>

\* ------------------------------------------------------------------------
\*                         enum Token_Type (lexer.h)
\* ------------------------------------------------------------------------
TOKEN_NONE == 0
TOKEN_IDENTIFIER == 1
TOKEN_KEYWORD == 2
TOKEN_DATA_TYPE == 3
TOKEN_NUMERIC_LITERAL == 4
TOKEN_CHAR_LITERAL == 5
TOKEN_STRING_LITERAL == 6
TOKEN_BOOL_LITERAL == 7
TOKEN_SEPARATOR == 8
TOKEN_DELIMITER == 9
TOKEN_LEFT_BRACE == 100
TOKEN_RIGHT_BRACE == 101
TOKEN_LEFT_PAREN == 102
TOKEN_RIGHT_PAREN == 103
TOKEN_LEFT_SQUARE == 104
TOKEN_RIGHT_SQUARE == 105
TOKEN_NOT == 200
TOKEN_BIT_NOT == 201
TOKEN_INCREMENT == 202
TOKEN_DECREMENT == 203
TOKEN_PLUS == 300
TOKEN_MINUS == 301
TOKEN_DIVIDE == 302
TOKEN_MOD == 303
TOKEN_PLUSEQ == 304
TOKEN_MINUSEQ == 305
TOKEN_MULTIPLYEQ == 306
TOKEN_DIVIDEEQ == 307
TOKEN_MODEQ == 308
TOKEN_LESS == 309
TOKEN_GREATER == 310
TOKEN_LESSEQ == 311
TOKEN_GREATEREQ == 312
TOKEN_LSHIFT == 313
TOKEN_RSHIFT == 314
TOKEN_LSHIFT_EQ == 315
TOKEN_RSHIFT_EQ == 316
TOKEN_ASSIGN == 317
TOKEN_EQUAL == 318
TOKEN_NOTEQ == 319
TOKEN_AND == 320
TOKEN_OR == 321
TOKEN_BIT_OR == 322
TOKEN_XOR == 323
TOKEN_ANDEQ == 324
TOKEN_OREQ == 325
TOKEN_BIT_ANDEQ == 326
TOKEN_BIT_OREQ == 327
TOKEN_XOREQ == 328
TOKEN_DOT == 329
TOKEN_STAR == 400
TOKEN_AMPERSAND == 401

\* a Token as the parser sees it (the source coordinates play no part in parsing)
Tok(type, val) == [type |-> type, val |-> val]

\* the NULL Token* returned by the cursor operations
NULL_TOKEN == [type |-> -1, val |-> "NULL"]

is_unary_op(tok) == tok.type >= 200 /\ tok.type < 300

is_binary_op(tok) == tok.type >= 300

\* ------------------------------------------------------------------------
\*                 smap: string -> T hash map (data_structures.h)
\* ------------------------------------------------------------------------
SMAP_CAPACITY_INIT == 8

\* fnv1a_hash is used only through  hash & (capacity - 1);  the low HashBits
\* bits of a product or an xor depend on the low HashBits bits of the operands
\* only, so the hash is computed modulo 2^HashBits
HashBits == 16

HashModulus == 2 ^ HashBits

\* 1469598103934665603 % 2^16
FnvOffsetBasis == 899

\* 1099511628211 % 2^16
FnvPrime == 435

RECURSIVE BitXor(_, _)
BitXor(x, y) ==
    IF x = 0 THEN y
    ELSE IF y = 0 THEN x
    ELSE ((x + y) % 2) + 2 * BitXor(x \div 2, y \div 2)

RECURSIVE BitAnd(_, _)
BitAnd(x, y) ==
    IF x = 0 \/ y = 0 THEN 0
    ELSE ((x % 2) * (y % 2)) + 2 * BitAnd(x \div 2, y \div 2)

\* the bytes of the strings used as keys
KeyBytes(key) ==
    CASE key = "a" -> <<97>>
      [] key = "b" -> <<98>>
      [] key = "c" -> <<99>>
      [] key = "i" -> <<105>>
      [] key = "q" -> <<113>>
      [] key = "x" -> <<120>>
      [] key = "y" -> <<121>>
      [] key = "f" -> <<102>>
      [] key = "g" -> <<103>>
      [] key = "main" -> <<109, 97, 105, 110>>
      [] key = "h" -> <<104>>
      [] key = "n" -> <<110>>
      [] key = "s" -> <<115>>
      [] key = "z" -> <<122>>
      [] OTHER -> <<>>

RECURSIVE fnv1a_bytes(_, _, _)
fnv1a_bytes(bytes, i, hash) ==
    IF i > Len(bytes) THEN hash
    ELSE fnv1a_bytes(bytes, i + 1, (BitXor(hash, bytes[i]) * FnvPrime) % HashModulus)

fnv1a_hash(key) == fnv1a_bytes(KeyBytes(key), 1, FnvOffsetBasis)

\* the NULL that operator[] returns, and the value of a slot never written
NULL_VALUE == [null |-> TRUE]

smap_pair == [key |-> "", value |-> NULL_VALUE, occupied |-> FALSE, deleted |-> FALSE]

\* smap(initial_capacity)
smap(initial_capacity) ==
    [data |-> [i \in 1..initial_capacity |-> smap_pair], size |-> 0, capacity |-> initial_capacity]

\* a map that never grows
smap_must_grow_Never(m) == FALSE

\* (size + 1.0) / capacity > 0.75
smap_must_grow(m) == 4 * (m.size + 1) > 3 * m.capacity

RECURSIVE smap_insert(_, _, _)
RECURSIVE smap_probe_insert(_, _, _, _)
RECURSIVE smap_resize(_, _)
RECURSIVE smap_reinsert(_, _, _)

\* the while (1) loop of insert, from slot index (0-based)
smap_probe_insert(m, index, key, value) ==
    LET slot == m.data[index + 1] IN
    IF ~slot.occupied \/ slot.deleted
    THEN [m EXCEPT !.data[index + 1] =
                        [key |-> key, value |-> value, occupied |-> TRUE, deleted |-> FALSE],
                   !.size = m.size + 1]
    ELSE IF slot.key = key
    THEN [m EXCEPT !.data[index + 1].value = value]
    ELSE smap_probe_insert(m, BitAnd(index + 1, m.capacity - 1), key, value)

\* the for loop of resize over the old slots i .. old_capacity - 1
smap_reinsert(m, old_data, i) ==
    IF i > Len(old_data) THEN m
    ELSE IF old_data[i].occupied /\ ~old_data[i].deleted
    THEN smap_reinsert(smap_insert(m, old_data[i].key, old_data[i].value), old_data, i + 1)
    ELSE smap_reinsert(m, old_data, i + 1)

smap_resize(m, new_capacity) ==
    smap_reinsert(smap(new_capacity), m.data, 1)

smap_insert(m, key, value) ==
    LET m1 == IF smap_must_grow(m) THEN smap_resize(m, m.capacity * 2) ELSE m
    IN smap_probe_insert(m1, BitAnd(fnv1a_hash(key), m1.capacity - 1), key, value)

RECURSIVE smap_probe_lookup(_, _, _)

\* a lookup that looks at the home slot only
smap_probe_lookup_HomeSlot(m, index, key) ==
    LET slot == m.data[index + 1] IN
    IF slot.occupied /\ ~slot.deleted /\ slot.key = key THEN slot.value ELSE NULL_VALUE

\* operator[]: the while (data[index].occupied) loop from slot index
smap_probe_lookup(m, index, key) ==
    LET slot == m.data[index + 1] IN
    IF ~slot.occupied THEN NULL_VALUE
    ELSE IF ~slot.deleted /\ slot.key = key THEN slot.value
    ELSE smap_probe_lookup(m, BitAnd(index + 1, m.capacity - 1), key)

smap_lookup(m, key) ==
    smap_probe_lookup(m, BitAnd(fnv1a_hash(key), m.capacity - 1), key)

\* ------------------------------------------------------------------------
\*                 Symbol_Table (lexer.h)
\* ------------------------------------------------------------------------
\* the most scopes open at once
MaxScopeDepth == 3

\* the variable names declared; the two hashes collide in a table of 8 slots
SymbolNames == {"a", "i"}

\* the data types with which the variables are declared
VariableTypes == [a |-> {"T_INT", "T_FLOAT"}, i |-> {"T_INT"}]

Symbol(identifier, symbol_type, return_type) ==
    [identifier |-> identifier, symbol_type |-> symbol_type, return_type |-> return_type]

\* a Scope object: freed memory is a Scope that is not live
FreeScope == [live |-> FALSE, parent |-> 0, child |-> 0, variables |-> smap(SMAP_CAPACITY_INIT)]

\* new Scope: parent = NULL, child = NULL, an empty map
NewScope == [live |-> TRUE, parent |-> 0, child |-> 0, variables |-> smap(SMAP_CAPACITY_INIT)]

ScopeAddresses == 1..(MaxScopeDepth + 1)

\* the address the allocator hands out: any free one, the lowest here
AllocScope(heap) == CHOOSE a \in DOMAIN heap : ~heap[a].live /\ \A b \in DOMAIN heap : ~heap[b].live => a <= b

\* push() without the link back to the enclosing scope
Symbol_Table_push_NoParent(heap, head, curr) ==
    LET scope == AllocScope(heap) IN
    IF curr = 0
    THEN [heap |-> [heap EXCEPT ![scope] = NewScope], head |-> scope, curr |-> scope]
    ELSE [heap |-> [heap EXCEPT ![curr].child = scope, ![scope] = NewScope],
          head |-> head, curr |-> scope]

\* Symbol_Table::push
Symbol_Table_push(heap, head, curr) ==
    LET scope == AllocScope(heap) IN
    IF curr = 0
    THEN [heap |-> [heap EXCEPT ![scope] = NewScope], head |-> scope, curr |-> scope]
    ELSE [heap |-> [heap EXCEPT ![curr].child = scope,
                                ![scope] = [NewScope EXCEPT !.parent = curr]],
          head |-> head, curr |-> scope]

\* Symbol_Table::pop, for curr_scope != NULL
Symbol_Table_pop(heap, head, curr) ==
    LET parent == heap[curr].parent
        freed == [heap EXCEPT ![curr] = FreeScope]
    IN [heap |-> IF parent # 0 THEN [freed EXCEPT ![parent].child = 0] ELSE freed,
        head |-> head, curr |-> parent]

\* Symbol_Table::exists for SYM_VARIABLE: the walk from scope_to_search upwards
RECURSIVE scope_chain_has(_, _, _)
scope_chain_has(heap, scope_to_search, name) ==
    IF scope_to_search = 0 THEN FALSE
    ELSE IF smap_lookup(heap[scope_to_search].variables, name) # NULL_VALUE THEN TRUE
    ELSE scope_chain_has(heap, heap[scope_to_search].parent, name)

\* Symbol_Table::exists
Symbol_Table_exists(heap, curr, globals, funcs, name, symbol_type) ==
    IF symbol_type = "SYM_FUNCTION" THEN smap_lookup(funcs, name) # NULL_VALUE
    ELSE IF smap_lookup(globals, name) # NULL_VALUE THEN TRUE
    ELSE scope_chain_has(heap, curr, name)

\* ------------------------------------------------------------------------
\*                         enum Precedence (parser.h)
\* ------------------------------------------------------------------------
PREC_MIN == 0
PREC_ASSIGNMENT == 1
PREC_OR == 2
PREC_AND == 3
PREC_EQUALITY == 4
PREC_COMPARISON == 5
PREC_ADDITIVE == 6
PREC_MULTIPLICATIVE == 7
PREC_UNARY == 8
PREC_PRIMARY == 9

op_prec(type) ==
    CASE type \in {TOKEN_ASSIGN, TOKEN_PLUSEQ, TOKEN_MINUSEQ, TOKEN_MULTIPLYEQ,
                   TOKEN_DIVIDEEQ, TOKEN_MODEQ, TOKEN_OREQ, TOKEN_BIT_OREQ,
                   TOKEN_XOREQ, TOKEN_ANDEQ, TOKEN_BIT_ANDEQ} -> PREC_ASSIGNMENT
      [] type \in {TOKEN_OR, TOKEN_BIT_OR, TOKEN_XOR} -> PREC_OR
      [] type \in {TOKEN_AND, TOKEN_AMPERSAND} -> PREC_AND
      [] type \in {TOKEN_EQUAL, TOKEN_NOTEQ} -> PREC_EQUALITY
      [] type \in {TOKEN_LESS, TOKEN_LESSEQ, TOKEN_GREATER, TOKEN_GREATEREQ} -> PREC_COMPARISON
      [] type \in {TOKEN_PLUS, TOKEN_MINUS} -> PREC_ADDITIVE
      [] type \in {TOKEN_STAR, TOKEN_DIVIDE} -> PREC_MULTIPLICATIVE
      [] type \in {TOKEN_NOT, TOKEN_BIT_NOT, TOKEN_INCREMENT, TOKEN_DECREMENT} -> PREC_UNARY
      [] type \in {TOKEN_IDENTIFIER, TOKEN_DATA_TYPE, TOKEN_NUMERIC_LITERAL,
                   TOKEN_CHAR_LITERAL, TOKEN_STRING_LITERAL, TOKEN_LEFT_PAREN} -> PREC_PRIMARY
      [] OTHER -> PREC_MIN

\* ------------------------------------------------------------------------
\*                  Lexer cursor operations (lexer.h)
\* ------------------------------------------------------------------------
\* each takes the token vector and the 0-based cursor; the advancing ones
\* return the new cursor as well

peek(toks, idx, num_tokens_ahead) ==
    IF idx + num_tokens_ahead >= Len(toks) THEN NULL_TOKEN
    ELSE toks[idx + num_tokens_ahead + 1]

peek_next_token(toks, idx) ==
    IF idx + 1 >= Len(toks) THEN NULL_TOKEN ELSE toks[idx + 2]

peek_prev_token(toks, idx) ==
    IF idx <= 0 THEN NULL_TOKEN ELSE toks[idx]

get_next_token_Unchecked(toks, idx) ==
    [tok |-> IF idx + 1 >= Len(toks) THEN NULL_TOKEN ELSE toks[idx + 2], idx |-> idx + 1]

get_next_token(toks, idx) ==
    IF idx + 1 >= Len(toks) THEN [tok |-> NULL_TOKEN, idx |-> idx]
    ELSE [tok |-> toks[idx + 2], idx |-> idx + 1]

move_to_next_token(toks, idx) ==
    IF idx + 1 >= Len(toks) THEN idx ELSE idx + 1

\* ------------------------------------------------------------------------
\*                         AST nodes (ast.h)
\* ------------------------------------------------------------------------
NULL_EXPR == [expr_type |-> "NULL"]

Identifier(name) == [expr_type |-> "EXPR_IDENT", name |-> name]

Literal(val) == [expr_type |-> "EXPR_LITERAL", value |-> val]

Declaration(data_type, variable_name) ==
    [expr_type |-> "EXPR_DECL", data_type |-> data_type, variable_name |-> variable_name]

Binary(op, left, right) ==
    [expr_type |-> "EXPR_BINARY", op |-> op, left |-> left, right |-> right]

FunctionCall(function_name, params) ==
    [expr_type |-> "EXPR_FUNC_CALL", function_name |-> function_name, params |-> params]

\* ------------------------------------------------------------------------
\*                 expression parser (parser.cpp)
\* ------------------------------------------------------------------------
\* A parse function returns [ok, expr, idx]: ok = FALSE stands for
\* throw_parser_error (exit(1)); idx is the cursor it leaves behind.

ParseError == [ok |-> FALSE, expr |-> NULL_EXPR, idx |-> 0]

ParseOk(expr, idx) == [ok |-> TRUE, expr |-> expr, idx |-> idx]

\* the test that sends parse_ast_subexpression into parse_decreasing_precedence
LowerPrecedence_Inverted(new_prec, curr_precedence) == new_prec > curr_precedence

LowerPrecedence_OrEqual(new_prec, curr_precedence) == new_prec <= curr_precedence

LowerPrecedence(new_prec, curr_precedence) == new_prec < curr_precedence

\* the test of parse_decreasing_precedence that hands over to parse_ast_subexpression
HigherPrecedence(new_prec, curr_precedence) == new_prec > curr_precedence

\* the chain expr -> right -> right ... built by parse_ast_subexpression:
\* spine holds the nodes whose right child is the next node, node is the last one
RECURSIVE LinkSpine(_, _)
LinkSpine(spine, node) ==
    IF spine = <<>> THEN node
    ELSE Binary(spine[1].op, spine[1].left, LinkSpine(Tail(spine), node))

RECURSIVE parse_ast_subexpression(_, _, _, _)
RECURSIVE subexpression_loop(_, _, _, _, _, _)
RECURSIVE parse_decreasing_precedence(_, _, _, _, _)
RECURSIVE parse_primary_subexpression(_, _)
RECURSIVE parse_ast_function_call(_, _)
RECURSIVE function_call_args(_, _, _, _, _)
RECURSIVE count_separators(_, _, _, _)

\* the counting loop of parse_ast_function_call: -1 when the tokens run out
count_separators(toks, idx, i, num_separators) ==
    LET t == peek(toks, idx, i) IN
    IF t = NULL_TOKEN THEN -1
    ELSE IF t.type = TOKEN_SEPARATOR THEN count_separators(toks, idx, i + 1, num_separators + 1)
    ELSE IF t.type = TOKEN_RIGHT_PAREN THEN num_separators
    ELSE count_separators(toks, idx, i + 1, num_separators)

\* the argument loop of parse_ast_function_call; its bound num_separators + 1
\* is re-read on every iteration while num_separators is counted down
function_call_args(toks, idx, arg_num, num_separators, params) ==
    IF ~(arg_num < num_separators + 1) THEN ParseOk(params, idx)
    ELSE LET r == parse_ast_subexpression(toks, idx, PREC_MIN,
                      IF num_separators > 0 THEN TOKEN_SEPARATOR ELSE TOKEN_RIGHT_PAREN)
         IN IF ~r.ok THEN ParseError
            ELSE function_call_args(toks, move_to_next_token(toks, r.idx), arg_num + 1,
                                    num_separators - 1, Append(params, r.expr))

parse_ast_function_call(toks, idx) ==
    LET name == peek(toks, idx, 0).val
        g1 == get_next_token(toks, idx)         \* this is '('
        g2 == get_next_token(toks, g1.idx)
        n == count_separators(toks, g2.idx, 0, 0)
    IN IF n < 0 THEN ParseError
       ELSE LET a == function_call_args(toks, g2.idx, 0, n, <<>>)
            IN IF ~a.ok THEN ParseError
               ELSE ParseOk(FunctionCall(name, a.expr), a.idx)

parse_ast_identifier(toks, idx) ==
    LET tok == peek(toks, idx, 0)
        next == peek_next_token(toks, idx)
    IN IF next = NULL_TOKEN THEN ParseError
       ELSE IF next.type = TOKEN_LEFT_PAREN THEN parse_ast_function_call(toks, idx)
       ELSE ParseOk(Identifier(tok.val), move_to_next_token(toks, idx))

parse_ast_declaration(toks, idx) ==
    LET data_type == peek(toks, idx, 0).val
        g1 == get_next_token(toks, idx)
    IN IF g1.tok = NULL_TOKEN \/ g1.tok.type # TOKEN_IDENTIFIER THEN ParseError
       ELSE LET g2 == get_next_token(toks, g1.idx)
            IN IF g2.tok = NULL_TOKEN THEN ParseError
               ELSE ParseOk(Declaration(data_type, g1.tok.val), g2.idx)

parse_ast_literal(toks, idx) ==
    LET tok == peek(toks, idx, 0)
        g == get_next_token(toks, idx)
    IN IF g.tok = NULL_TOKEN THEN ParseError
       ELSE ParseOk(Literal(tok.val), g.idx)

parse_ast_parenthesized_expression(toks, idx) ==
    LET g1 == get_next_token(toks, idx)
    IN IF g1.tok = NULL_TOKEN THEN ParseError
       ELSE LET r == parse_ast_subexpression(toks, g1.idx, PREC_MIN, TOKEN_RIGHT_PAREN)
            IN IF ~r.ok THEN ParseError
               ELSE LET g2 == get_next_token(toks, r.idx)
                    IN IF g2.tok = NULL_TOKEN THEN ParseError
                       ELSE ParseOk(r.expr, g2.idx)

parse_primary_subexpression(toks, idx) ==
    LET tok == peek(toks, idx, 0) IN
    CASE tok.type = TOKEN_IDENTIFIER -> parse_ast_identifier(toks, idx)
      [] tok.type = TOKEN_DATA_TYPE -> parse_ast_declaration(toks, idx)
      [] tok.type \in {TOKEN_CHAR_LITERAL, TOKEN_NUMERIC_LITERAL, TOKEN_STRING_LITERAL}
            -> parse_ast_literal(toks, idx)
      [] tok.type = TOKEN_LEFT_PAREN -> parse_ast_parenthesized_expression(toks, idx)
      [] OTHER -> ParseError

\* the while (1) loop of parse_decreasing_precedence
parse_decreasing_precedence(toks, idx, left, curr_precedence, stops_at) ==
    LET tok == peek(toks, idx, 0) IN
    IF tok = NULL_TOKEN \/ ~is_binary_op(tok) THEN ParseError
    ELSE
    LET g == get_next_token(toks, idx) IN
    IF g.tok = NULL_TOKEN \/ op_prec(g.tok.type) # PREC_PRIMARY THEN ParseError
    ELSE
    LET p == parse_primary_subexpression(toks, g.idx) IN
    IF ~p.ok THEN ParseError
    ELSE
    LET op == peek(toks, p.idx, 0) IN
    IF op = NULL_TOKEN THEN ParseError
    ELSE IF op.type = stops_at THEN ParseOk(Binary(tok.type, left, p.expr), p.idx)
    ELSE IF op.type = TOKEN_DELIMITER THEN ParseError
    ELSE IF ~is_binary_op(op) THEN ParseError
    ELSE
    LET new_prec == op_prec(op.type) IN
    IF HigherPrecedence(new_prec, curr_precedence)
    THEN LET r == parse_ast_subexpression(toks, p.idx, new_prec, stops_at)
         IN IF ~r.ok THEN ParseError
            ELSE ParseOk(Binary(tok.type, left, r.expr), r.idx)
    ELSE parse_decreasing_precedence(toks, p.idx, Binary(tok.type, left, p.expr),
                                     new_prec, stops_at)

\* the while (1) loop of parse_ast_subexpression; left is curr_expression->left,
\* spine the nodes above curr_expression (prev_expression is its last element)
subexpression_loop(toks, idx, spine, left, curr_precedence, stops_at) ==
    LET tok == peek(toks, idx, 0) IN
    IF tok # NULL_TOKEN /\ tok.type = stops_at
    THEN ParseOk(LinkSpine(spine, Binary(TOKEN_NONE, left, NULL_EXPR)), idx)
    ELSE IF tok # NULL_TOKEN /\ tok.type = TOKEN_DELIMITER THEN ParseError
    ELSE IF tok = NULL_TOKEN \/ ~is_binary_op(tok) THEN ParseError
    ELSE
    LET g == get_next_token(toks, idx) IN
    IF g.tok = NULL_TOKEN \/ op_prec(g.tok.type) # PREC_PRIMARY THEN ParseError
    ELSE
    LET p == parse_primary_subexpression(toks, g.idx) IN
    IF ~p.ok THEN ParseError
    ELSE
    LET op == peek(toks, p.idx, 0) IN
    IF op = NULL_TOKEN THEN ParseError
    ELSE IF op.type = stops_at
    THEN ParseOk(LinkSpine(spine, Binary(tok.type, left, p.expr)), p.idx)
    ELSE IF op.type = TOKEN_DELIMITER THEN ParseError
    ELSE IF ~is_binary_op(op) THEN ParseError
    ELSE
    LET new_prec == op_prec(op.type) IN
    IF LowerPrecedence(new_prec, curr_precedence)
    THEN LET u == parse_decreasing_precedence(toks, p.idx, Binary(tok.type, left, p.expr),
                                              new_prec, stops_at)
         IN IF ~u.ok THEN ParseError
            ELSE ParseOk(LinkSpine(spine, u.expr), u.idx)
    ELSE subexpression_loop(toks, p.idx, Append(spine, [op |-> tok.type, left |-> left]),
                            p.expr, new_prec, stops_at)

parse_ast_subexpression(toks, idx, curr_precedence, stops_at) ==
    LET tok == peek(toks, idx, 0) IN
    IF tok = NULL_TOKEN THEN ParseError
    ELSE IF tok.type = stops_at THEN ParseOk(NULL_EXPR, idx)
    ELSE IF tok.type = TOKEN_DELIMITER THEN ParseError
    ELSE IF op_prec(tok.type) # PREC_PRIMARY THEN ParseError
    ELSE LET p == parse_primary_subexpression(toks, idx)
         IN IF ~p.ok THEN ParseError
            ELSE subexpression_loop(toks, p.idx, <<>>, p.expr, curr_precedence, stops_at)

\* parse_ast_expression for a statement that does not start with a keyword
parse_ast_expression(toks, idx) ==
    parse_ast_subexpression(toks, idx, PREC_MIN, TOKEN_DELIMITER)

\* ------------------------------------------------------------------------
\*                    the parser's inputs and actions
\* ------------------------------------------------------------------------
\* longest operator chain a OP b OP c ... given to the parser
MaxOperators == 3

\* one operator of every precedence level, two of the assignment level
ChainOperators ==
    {TOKEN_ASSIGN, TOKEN_PLUSEQ, TOKEN_OR, TOKEN_AND, TOKEN_EQUAL, TOKEN_LESS,
     TOKEN_PLUS, TOKEN_MINUS, TOKEN_STAR, TOKEN_MOD}

OperandNames == <<"a", "b", "c", "d", "e", "f">>

\* the token vector of  a ops[1] b ops[2] c ... ;
RECURSIVE ChainTokens(_, _)
ChainTokens(ops, i) ==
    IF i > Len(ops) THEN <<Tok(TOKEN_IDENTIFIER, OperandNames[i]), Tok(TOKEN_DELIMITER, ";")>>
    ELSE <<Tok(TOKEN_IDENTIFIER, OperandNames[i]), Tok(ops[i], "op")>> \o ChainTokens(ops, i + 1)

OperatorChains ==
    UNION {[1..n -> ChainOperators] : n \in 1..MaxOperators}

\* statements with the other primary expressions: literals, a declaration,
\* parentheses and function calls
OtherStatements ==
    { <<Tok(TOKEN_IDENTIFIER, "a"), Tok(TOKEN_DELIMITER, ";")>>,
      <<Tok(TOKEN_DATA_TYPE, "int"), Tok(TOKEN_IDENTIFIER, "x"), Tok(TOKEN_ASSIGN, "="),
        Tok(TOKEN_NUMERIC_LITERAL, "3"), Tok(TOKEN_STAR, "*"), Tok(TOKEN_IDENTIFIER, "y"),
        Tok(TOKEN_DELIMITER, ";")>>,
      <<Tok(TOKEN_LEFT_PAREN, "("), Tok(TOKEN_IDENTIFIER, "a"), Tok(TOKEN_PLUS, "+"),
        Tok(TOKEN_IDENTIFIER, "b"), Tok(TOKEN_RIGHT_PAREN, ")"), Tok(TOKEN_STAR, "*"),
        Tok(TOKEN_IDENTIFIER, "c"), Tok(TOKEN_DELIMITER, ";")>>,
      <<Tok(TOKEN_IDENTIFIER, "f"), Tok(TOKEN_LEFT_PAREN, "("), Tok(TOKEN_RIGHT_PAREN, ")"),
        Tok(TOKEN_DELIMITER, ";")>>,
      <<Tok(TOKEN_IDENTIFIER, "f"), Tok(TOKEN_LEFT_PAREN, "("), Tok(TOKEN_IDENTIFIER, "a"),
        Tok(TOKEN_SEPARATOR, ","), Tok(TOKEN_IDENTIFIER, "b"), Tok(TOKEN_RIGHT_PAREN, ")"),
        Tok(TOKEN_DELIMITER, ";")>>,
      <<Tok(TOKEN_IDENTIFIER, "a"), Tok(TOKEN_PLUS, "+"), Tok(TOKEN_DELIMITER, ";")>>,
      <<Tok(TOKEN_IDENTIFIER, "a"), Tok(TOKEN_IDENTIFIER, "b"), Tok(TOKEN_DELIMITER, ";")>>,
      <<Tok(TOKEN_IDENTIFIER, "a"), Tok(TOKEN_PLUS, "+"), Tok(TOKEN_IDENTIFIER, "b")>> }

\* the most arguments of a call given to the parser
MaxArgs == 3

\* the shapes of an argument: an identifier, a sum, a parenthesized
\* identifier and a call
ArgumentShapes == {"a", "a+b", "(a)", "g(a)"}

ArgumentTokens(shape) ==
    CASE shape = "a" -> <<Tok(TOKEN_IDENTIFIER, "a")>>
      [] shape = "a+b" -> <<Tok(TOKEN_IDENTIFIER, "a"), Tok(TOKEN_PLUS, "+"),
                            Tok(TOKEN_IDENTIFIER, "b")>>
      [] shape = "(a)" -> <<Tok(TOKEN_LEFT_PAREN, "("), Tok(TOKEN_IDENTIFIER, "a"),
                            Tok(TOKEN_RIGHT_PAREN, ")")>>
      [] shape = "g(a)" -> <<Tok(TOKEN_IDENTIFIER, "g"), Tok(TOKEN_LEFT_PAREN, "("),
                             Tok(TOKEN_IDENTIFIER, "a"), Tok(TOKEN_RIGHT_PAREN, ")")>>

\* the tokens of the arguments from the i-th on, with the separators
RECURSIVE ArgumentListTokens(_, _)
ArgumentListTokens(shapes, i) ==
    IF i > Len(shapes) THEN <<>>
    ELSE ArgumentTokens(shapes[i])
             \o (IF i < Len(shapes) THEN <<Tok(TOKEN_SEPARATOR, ",")>> ELSE <<>>)
             \o ArgumentListTokens(shapes, i + 1)

\* the statement f ( arguments ) ;
CallTokens(shapes) ==
    <<Tok(TOKEN_IDENTIFIER, "f"), Tok(TOKEN_LEFT_PAREN, "(")>>
        \o ArgumentListTokens(shapes, 1)
        \o <<Tok(TOKEN_RIGHT_PAREN, ")"), Tok(TOKEN_DELIMITER, ";")>>

ArgumentLists == UNION {[1..n -> ArgumentShapes] : n \in 0..MaxArgs}

CallStatements == {CallTokens(shapes) : shapes \in ArgumentLists}

ParserInputs ==
    {ChainTokens(ops, 1) : ops \in OperatorChains} \cup OtherStatements \cup CallStatements

\* the parser before it is given a statement
\* no cursor operation has been called
NoCall == [op |-> "none", k |-> 0, from |-> 0, returned |-> NULL_TOKEN]

ParserIdle ==
    /\ tokens = <<>>
    /\ curr_token_index = 0
    /\ ast = NULL_EXPR
    /\ parse_pc = "idle"
    /\ cursor_call = NoCall

\* Symbol_Table as constructed: no scope, empty maps
SymbolTableNew ==
    /\ scope_heap = [a \in ScopeAddresses |-> FreeScope]
    /\ head_scope = 0
    /\ curr_scope = 0
    /\ global_variables = smap(SMAP_CAPACITY_INIT)
    /\ functions = smap(SMAP_CAPACITY_INIT)
    /\ declared = [globals |-> {}, scopes |-> <<>>, popped |-> {}]

SymIdle == SymbolTableNew /\ sym_pc = "idle"

\* nullptr as an llvm::Value*
NullVal == [kind |-> "null", type |-> "none", id |-> 0]

\* the emission state before emit_llvm_ir: an empty module, a builder with no
\* insertion block, an empty llvm_symbol_table and loop_terminals stack
NewModule ==
    [blocks |-> <<>>, ip |-> 0, nv |-> 0, loop_terminals |-> <<>>,
     symtab |-> smap(SMAP_CAPACITY_INIT), funcs |-> <<>>, fn |-> 0,
     globals |-> <<>>, val |-> NullVal, ret |-> FALSE, err |-> "", log |-> <<>>]

EmitIdle ==
    /\ program_ast = <<>>
    /\ emit_index = 0
    /\ ir = NewModule
    /\ emit_pc = "idle"

\* the lexer before perform_lexical_analysis is called
LexIdle ==
    /\ files = <<>>
    /\ lexers = <<>>
    /\ lex_pc = "idle"

\* main before it has done anything
DriverNew ==
    [entry_point_found |-> FALSE, module_list |-> <<>>,
     stderr |-> <<>>, stages |-> <<>>, exited |-> FALSE, status |-> 0]

\* the driver before main is entered
DriverIdle ==
    /\ argv = <<>>
    /\ make_output_file = TRUE
    /\ file_index = 0
    /\ driver = DriverNew
    /\ driver_pc = "idle"

\* a map as smap() constructs it, before any insert
SmapIdle ==
    /\ table = smap(SMAP_CAPACITY_INIT)
    /\ inserted = <<>>

InitParser ==
    /\ tokens \in ParserInputs
    /\ curr_token_index = 0
    /\ ast = NULL_EXPR
    /\ parse_pc = "ready"
    /\ cursor_call = NoCall
    /\ SymIdle
    /\ EmitIdle
    /\ LexIdle
    /\ DriverIdle
    /\ SmapIdle

\* parse_ast_expression(lexer) on a statement; a parser error is exit(1)
ParseExpression ==
    /\ parse_pc = "ready"
    /\ LET r == parse_ast_expression(tokens, curr_token_index)
       IN /\ parse_pc' = IF r.ok THEN "parsed" ELSE "error"
          /\ ast' = r.expr
          /\ curr_token_index' = IF r.ok THEN r.idx ELSE curr_token_index
    /\ UNCHANGED <<tokens, cursor_call>>
    /\ UNCHANGED notParserVars

NextParser == ParseExpression

SpecParser == InitParser /\ [][NextParser]_vars

\* ------------------------------------------------------------------------
\*      the cursor of struct Lexer: a client calling its operations
\* ------------------------------------------------------------------------
\* the most tokens the lexer holds
MaxTokens == 4

\* the largest num_tokens_ahead handed to peek
MaxAhead == 5

\* token vectors of one token at least
CursorInputs ==
    UNION { [1..n -> {Tok(TOKEN_IDENTIFIER, "x"), Tok(TOKEN_DELIMITER, ";")}] : n \in 1..MaxTokens }

InitCursor ==
    /\ tokens \in CursorInputs
    /\ curr_token_index = 0
    /\ ast = NULL_EXPR
    /\ parse_pc = "cursor"
    /\ cursor_call = NoCall
    /\ SymIdle
    /\ EmitIdle
    /\ LexIdle
    /\ DriverIdle
    /\ SmapIdle

\* the record of a call made with the cursor at curr_token_index
Call(op, k, returned) ==
    [op |-> op, k |-> k, from |-> curr_token_index, returned |-> returned]

GetNextToken ==
    /\ parse_pc = "cursor"
    /\ curr_token_index' = get_next_token(tokens, curr_token_index).idx
    /\ cursor_call' = Call("get_next_token", 0, get_next_token(tokens, curr_token_index).tok)
    /\ UNCHANGED <<tokens, ast, parse_pc, notParserVars>>

MoveToNextToken ==
    /\ parse_pc = "cursor"
    /\ curr_token_index' = move_to_next_token(tokens, curr_token_index)
    /\ cursor_call' = Call("move_to_next_token", 0, NULL_TOKEN)
    /\ UNCHANGED <<tokens, ast, parse_pc, notParserVars>>

PeekNextToken ==
    /\ parse_pc = "cursor"
    /\ cursor_call' = Call("peek_next_token", 0, peek_next_token(tokens, curr_token_index))
    /\ UNCHANGED <<tokens, curr_token_index, ast, parse_pc, notParserVars>>

Peek ==
    /\ parse_pc = "cursor"
    /\ \E num_tokens_ahead \in 0..MaxAhead :
           cursor_call' = Call("peek", num_tokens_ahead,
                               peek(tokens, curr_token_index, num_tokens_ahead))
    /\ UNCHANGED <<tokens, curr_token_index, ast, parse_pc, notParserVars>>

PeekPrevToken ==
    /\ parse_pc = "cursor"
    /\ cursor_call' = Call("peek_prev_token", 0, peek_prev_token(tokens, curr_token_index))
    /\ UNCHANGED <<tokens, curr_token_index, ast, parse_pc, notParserVars>>

NextCursor == GetNextToken \/ MoveToNextToken \/ PeekNextToken \/ Peek \/ PeekPrevToken

SpecCursor == InitCursor /\ [][NextCursor]_vars

\* ------------------------------------------------------------------------
\*                     properties of the parser
\* ------------------------------------------------------------------------
\* the statement  x OP1 y OP2 z ;  with identifier operands
IsThreeOperand(toks) ==
    /\ Len(toks) = 6
    /\ toks[1].type = TOKEN_IDENTIFIER /\ toks[3].type = TOKEN_IDENTIFIER
    /\ toks[5].type = TOKEN_IDENTIFIER
    /\ is_binary_op(toks[2]) /\ is_binary_op(toks[4])
    /\ toks[6].type = TOKEN_DELIMITER

IsAssignmentOp(type) == op_prec(type) = PREC_ASSIGNMENT

\* x OP1 (y OP2 z)
RightBentTree(toks) ==
    Binary(toks[2].type, Identifier(toks[1].val),
           Binary(toks[4].type, Identifier(toks[3].val), Identifier(toks[5].val)))

\* (x OP1 y) OP2 z
LeftBentTree(toks) ==
    Binary(toks[4].type,
           Binary(toks[2].type, Identifier(toks[1].val), Identifier(toks[3].val)),
           Identifier(toks[5].val))

\* C1: a OP1 b OP2 c with prec(OP1) < prec(OP2) parses to the Binary with OP1
\* at the root, a as its left operand and the Binary b OP2 c as its right operand
C1_HigherPrecedenceBindsRight ==
    (parse_pc # "ready" /\ IsThreeOperand(tokens)
        /\ op_prec(tokens[2].type) < op_prec(tokens[4].type))
    => (parse_pc = "parsed" /\ ast = RightBentTree(tokens))

C1_Witness ==
    /\ parse_pc = "parsed"
    /\ tokens = ChainTokens(<<TOKEN_PLUS, TOKEN_STAR>>, 1)
    /\ ast = Binary(TOKEN_PLUS, Identifier("a"),
                    Binary(TOKEN_STAR, Identifier("b"), Identifier("c")))

\* C2: a OP1 b OP2 c with non-assignment operators and prec(OP1) >= prec(OP2)
\* parses to the Binary with OP2 at the root, a OP1 b as its left child and c
\* as its right child
C2_LeftAssociativeRoot ==
    (parse_pc # "ready" /\ IsThreeOperand(tokens)
        /\ ~IsAssignmentOp(tokens[2].type) /\ ~IsAssignmentOp(tokens[4].type)
        /\ op_prec(tokens[2].type) >= op_prec(tokens[4].type))
    => (parse_pc = "parsed" /\ ast = LeftBentTree(tokens))

\* the statement is a chain  x1 = x2 = ... = xn ;  of assignment operators
IsAssignmentChain(toks) ==
    /\ Len(toks) >= 6
    /\ Len(toks) % 2 = 0
    /\ toks[Len(toks)].type = TOKEN_DELIMITER
    /\ \A i \in 1..(Len(toks) - 1) :
          IF i % 2 = 1 THEN toks[i].type = TOKEN_IDENTIFIER
          ELSE IsAssignmentOp(toks[i].type)

\* x1 = (x2 = (... = xn)), read off the tokens from position i
RECURSIVE RightNested(_, _)
RightNested(toks, i) ==
    IF toks[i + 1].type = TOKEN_DELIMITER THEN Identifier(toks[i].val)
    ELSE Binary(toks[i + 1].type, Identifier(toks[i].val), RightNested(toks, i + 2))

\* C3: a chain of assignment operators parses right-associatively: the root is
\* the first assignment, its left operand the first name and its right operand
\* the Binary of the rest of the chain
C3_AssignmentRightAssociative ==
    (parse_pc # "ready" /\ IsAssignmentChain(tokens))
    => (parse_pc = "parsed" /\ ast = RightNested(tokens, 1))

C3_Witness ==
    /\ parse_pc = "parsed"
    /\ tokens = ChainTokens(<<TOKEN_ASSIGN, TOKEN_PLUSEQ, TOKEN_ASSIGN>>, 1)
    /\ ast = Binary(TOKEN_ASSIGN, Identifier("a"),
                Binary(TOKEN_PLUSEQ, Identifier("b"),
                    Binary(TOKEN_ASSIGN, Identifier("c"), Identifier("d"))))

\* ------------------------------------------------------------------------
\*                 the symbol table's operations
\* ------------------------------------------------------------------------
FunctionNames == {"f"}

InitSym ==
    /\ SymbolTableNew /\ sym_pc = "run"
    /\ ParserIdle /\ EmitIdle /\ LexIdle /\ DriverIdle /\ SmapIdle

OpenScopes == Len(declared.scopes)

\* symbol_table.push()
Push ==
    /\ sym_pc = "run"
    /\ OpenScopes < MaxScopeDepth
    /\ LET r == Symbol_Table_push(scope_heap, head_scope, curr_scope)
       IN /\ scope_heap' = r.heap
          /\ head_scope' = r.head
          /\ curr_scope' = r.curr
    /\ declared' = [declared EXCEPT !.scopes = Append(@, {})]
    /\ UNCHANGED <<global_variables, functions, sym_pc>>
    /\ UNCHANGED notSymVars

\* symbol_table.pop() with a scope open
Pop ==
    /\ sym_pc = "run"
    /\ curr_scope # 0
    /\ LET r == Symbol_Table_pop(scope_heap, head_scope, curr_scope)
       IN /\ scope_heap' = r.heap
          /\ head_scope' = r.head
          /\ curr_scope' = r.curr
    /\ declared' = [declared EXCEPT
                       !.scopes = SubSeq(@, 1, Len(@) - 1),
                       !.popped = @ \cup declared.scopes[Len(declared.scopes)]]
    /\ UNCHANGED <<global_variables, functions, sym_pc>>
    /\ UNCHANGED notSymVars

\* symbol_table.pop() with no scope open reads curr_scope->child through NULL
PopWithoutScope ==
    /\ sym_pc = "run"
    /\ curr_scope = 0
    /\ sym_pc' = "crashed"
    /\ UNCHANGED <<scope_heap, head_scope, curr_scope, global_variables, functions, declared>>
    /\ UNCHANGED notSymVars

\* symbol_table.insert(symbol) for a variable
InsertVariable(name, return_type) ==
    /\ sym_pc = "run"
    /\ LET symbol == Symbol(name, "SYM_VARIABLE", return_type) IN
       IF curr_scope = 0
       THEN /\ global_variables' = smap_insert(global_variables, name, symbol)
            /\ declared' = [declared EXCEPT !.globals = @ \cup {name}]
            /\ UNCHANGED scope_heap
       ELSE /\ scope_heap' = [scope_heap EXCEPT ![curr_scope].variables =
                                  smap_insert(@, name, symbol)]
            /\ declared' = [declared EXCEPT !.scopes[Len(declared.scopes)] = @ \cup {name}]
            /\ UNCHANGED global_variables
    /\ UNCHANGED <<head_scope, curr_scope, functions, sym_pc>>
    /\ UNCHANGED notSymVars

\* symbol_table.insert(symbol) for a function
InsertFunction(name) ==
    /\ sym_pc = "run"
    /\ functions' = smap_insert(functions, name, Symbol(name, "SYM_FUNCTION", "T_VOID"))
    /\ UNCHANGED <<scope_heap, head_scope, curr_scope, global_variables, sym_pc, declared>>
    /\ UNCHANGED notSymVars

NextSym ==
    \/ Push
    \/ Pop
    \/ PopWithoutScope
    \/ \E name \in SymbolNames : \E return_type \in VariableTypes[name] :
           InsertVariable(name, return_type)
    \/ \E name \in FunctionNames : InsertFunction(name)

SpecSym == InitSym /\ [][NextSym]_vars

exists(name, symbol_type) ==
    Symbol_Table_exists(scope_heap, curr_scope, global_variables, functions, name, symbol_type)

\* the name was inserted in a scope that is still open, or with no scope open
DeclaredInOpenScope(name) ==
    \/ name \in declared.globals
    \/ \E i \in 1..Len(declared.scopes) : name \in declared.scopes[i]

\* C6: a variable name inserted while scope S is current is found by
\* exists(n, variable) from S and from every scope pushed on top of S until S
\* is popped; after that it is found only if it is also declared in a scope
\* that is still open or in global_variables
C6_ScopedVisibility ==
    sym_pc = "run" =>
        \A name \in SymbolNames :
            exists(name, "SYM_VARIABLE") <=> DeclaredInOpenScope(name)

\* "a" declared in the outer of two open scopes is seen from the inner one,
\* and "i", declared only in a scope since popped, is gone
C6_Witness ==
    /\ sym_pc = "run"
    /\ Len(declared.scopes) = 2
    /\ "a" \in declared.scopes[1] /\ "a" \notin declared.scopes[2]
    /\ exists("a", "SYM_VARIABLE")
    /\ "i" \in declared.popped /\ ~DeclaredInOpenScope("i")
    /\ ~exists("i", "SYM_VARIABLE")

\* the expression an argument of the given shape stands for
ArgumentExpression(shape) ==
    CASE shape = "a" -> Identifier("a")
      [] shape = "a+b" -> Binary(TOKEN_PLUS, Identifier("a"), Identifier("b"))
      [] shape = "(a)" -> Identifier("a")
      [] shape = "g(a)" -> FunctionCall("g", <<Identifier("a")>>)

\* the expression without the nodes that parse_ast_subexpression puts around
\* a lone operand: a Binary with a left operand only
RECURSIVE Operand(_)
Operand(expr) ==
    IF expr.expr_type = "EXPR_BINARY"
    THEN IF expr.right = NULL_EXPR THEN Operand(expr.left)
         ELSE Binary(expr.op, Operand(expr.left), Operand(expr.right))
    ELSE IF expr.expr_type = "EXPR_FUNC_CALL"
    THEN FunctionCall(expr.function_name,
                      [i \in 1..Len(expr.params) |-> Operand(expr.params[i])])
    ELSE expr

\* C17: a function call written with n >= 0 comma-separated arguments is
\* parsed into a FunctionCall node with exactly n argument expressions in
\* source order, for every argument shape, an empty argument list and
\* arguments with parentheses or nested calls included.
C17_CallArguments ==
    parse_pc # "ready" =>
        \A shapes \in ArgumentLists :
            tokens = CallTokens(shapes)
                => /\ parse_pc = "parsed"
                   /\ Operand(ast) = FunctionCall("f", [i \in 1..Len(shapes) |->
                                                           ArgumentExpression(shapes[i])])

\* the name is declared in the innermost scope (with no scope open: in
\* global_variables)
DeclaredInCurrentScope(name) ==
    IF curr_scope = 0 THEN smap_lookup(global_variables, name) # NULL_VALUE
    ELSE smap_lookup(scope_heap[curr_scope].variables, name) # NULL_VALUE

\* C16: declaring a variable whose name is already declared in the current
\* (innermost) scope is rejected with an error: the insertion of a duplicate
\* name into a scope never silently succeeds.
C16_DuplicateDeclarationRejected ==
    [][\A name \in SymbolNames : \A return_type \in VariableTypes[name] :
           (DeclaredInCurrentScope(name) /\ InsertVariable(name, return_type))
               => sym_pc' # "run"]_vars


\* ------------------------------------------------------------------------
\*        the IR builder as the emitter uses it (ir_generator.cpp)
\* ------------------------------------------------------------------------
\* The emission state st that every generate_ir threads through:
\*   blocks          the basic blocks of the module in creation order; a block
\*                   is [name, fn, instrs], its handle is its index
\*   ip              the builder's insertion block (0: none)
\*   nv              the number of instructions created so far
\*   loop_terminals  the stack of Loop_Terminals, top last
\*   symtab          llvm_symbol_table
\*   funcs           the functions of the module: [name, ret, params, proto]
\*   fn              the function being emitted (0 outside any function)
\*   globals         the global variables of the module
\*   val             the llvm::Value* that the last generate_ir returned
\*   ret             the bool that the last generate_block_ir returned
\*   err             the message of throw_ir_error ("" while running)
\*   log             history of what was emitted for which AST node
\* After throw_ir_error (exit(1)) no operation changes st any more.

\* an llvm::Constant of the given type; v names the constant
ConstVal(type, v) == [kind |-> "const", type |-> type, id |-> v]

\* the llvm::Value of an instruction
InstVal(type, id) == [kind |-> "inst", type |-> type, id |-> id]

\* the llvm::Argument of the function being emitted
ArgVal(type, name) == [kind |-> "arg", type |-> type, id |-> name]

\* an llvm::GlobalVariable (a Constant of pointer type)
GlobalVal(name) == [kind |-> "global", type |-> "ptr", id |-> name]

IsNull(val) == val.kind = "null"

\* llvm::isa<llvm::Constant>
IsConstant(val) == val.kind \in {"const", "global"}

throw_ir_error(st, message) ==
    IF st.err # "" THEN st ELSE [st EXCEPT !.err = message, !.val = NullVal]

\* return val;
SetVal(st, val) ==
    IF st.err # "" THEN st ELSE [st EXCEPT !.val = val]

\* return has_return;
SetRet(st, ret) ==
    IF st.err # "" THEN st ELSE [st EXCEPT !.ret = ret]

\* every history entry also names the function being emitted
Log(st, entry) ==
    IF st.err # "" THEN st ELSE [st EXCEPT !.log = Append(@, entry @@ [fn |-> st.fn])]

\* llvm::BasicBlock::Create(_context, name, f): the new block is the last one
CreateBlock(st, name) ==
    IF st.err # "" THEN st
    ELSE [st EXCEPT !.blocks = Append(@, [name |-> name, fn |-> st.fn, instrs |-> <<>>])]

\* the handle of the n-th block created from state st on
NextBlock(st, n) == Len(st.blocks) + n

SetInsertPoint(st, block) ==
    IF st.err # "" THEN st ELSE [st EXCEPT !.ip = block]

Instr(id, op, type, args, targets) ==
    [id |-> id, op |-> op, type |-> type, args |-> args, targets |-> targets]

\* IRBuilder::Insert: the instruction goes to the end of the insertion block
\* (nowhere when the builder has no insertion block) and is the value returned
Insert(st, op, type, args, targets) ==
    IF st.err # "" THEN st
    ELSE [st EXCEPT !.nv = st.nv + 1,
                    !.blocks = IF st.ip = 0 THEN @
                               ELSE [@ EXCEPT ![st.ip].instrs =
                                         Append(@, Instr(st.nv + 1, op, type, args, targets))],
                    !.val = InstVal(type, st.nv + 1)]

\* a value-producing instruction; the builder's ConstantFolder folds it to a
\* constant, creating no instruction, when all operands are constants
CreateOp(st, op, type, args) ==
    IF \A i \in 1..Len(args) : IsConstant(args[i])
    THEN SetVal(st, ConstVal(type, <<op, args>>))
    ELSE Insert(st, op, type, args, <<>>)

CreateLoad(st, type, ptr) == Insert(st, "load", type, <<ptr>>, <<>>)

\* the callers drop the instructions these return: val stays what it was
CreateStore(st, val, ptr) ==
    SetVal(Insert(st, "store", "void", <<val, ptr>>, <<>>), st.val)

CreateBr(st, dest) ==
    SetVal(Insert(st, "br", "void", <<>>, <<dest>>), st.val)

CreateCondBr(st, cond, iftrue, iffalse) ==
    SetVal(Insert(st, "condbr", "void", <<cond>>, <<iftrue, iffalse>>), st.val)

CreateRetVoid(st) == Insert(st, "ret", "void", <<>>, <<>>)

CreateRet(st, val) == Insert(st, "ret", "void", <<val>>, <<>>)

\* CreatePHI followed by the two addIncoming calls
CreatePHI(st, val1, block1, val2, block2) ==
    Insert(st, "phi", "i1", <<val1, val2>>, <<block1, block2>>)

\* f->getEntryBlock() of the function being emitted
EntryBlock(st) ==
    CHOOSE b \in 1..Len(st.blocks) :
        /\ st.blocks[b].fn = st.fn
        /\ \A c \in 1..Len(st.blocks) : st.blocks[c].fn = st.fn => b <= c

\* tmp_builder.CreateAlloca at the beginning of the entry block
CreateEntryAlloca(st, type, name) ==
    IF st.err # "" THEN st
    ELSE [st EXCEPT !.nv = st.nv + 1,
                    !.blocks[EntryBlock(st)].instrs =
                        <<Instr(st.nv + 1, "alloca", "ptr", <<ConstVal(type, name)>>, <<>>)>> \o @,
                    !.val = InstVal("ptr", st.nv + 1)]

IsIntegerTy(type) == type \in {"i1", "i8", "i32"}

IsPointerTy(type) == type = "ptr"

llvm_type_map(data_type) ==
    CASE data_type = "T_INT" -> "i32"
      [] data_type = "T_FLOAT" -> "float"
      [] data_type = "T_BOOL" -> "i1"
      [] data_type = "T_CHAR" -> "i8"
      [] data_type = "T_STRING" -> "ptr"
      [] data_type = "T_VOID" -> "void"
      [] OTHER -> "nullptr"

cast_llvm_value_to_bool(st, val) ==
    IF val.type = "i1" THEN SetVal(st, val)
    ELSE IF IsIntegerTy(val.type)
    THEN CreateOp(st, "icmp ne", "i1", <<val, ConstVal(val.type, 0)>>)
    ELSE IF val.type = "float"
    THEN CreateOp(st, "fcmp one", "i1", <<val, ConstVal(val.type, 0)>>)
    ELSE IF IsPointerTy(val.type)
    THEN CreateOp(st, "icmp ne", "i1", <<val, ConstVal("ptr", "null")>>)
    ELSE throw_ir_error(st, "Non-integer type in logical expression.")

\* _builder->CreateICmpNE(_condition, ConstantInt::get(_condition->getType(), 0))
\* on the value just returned
CreateICmpNEZero(st) ==
    CreateOp(st, "icmp ne", "i1", <<st.val, ConstVal(st.val.type, 0)>>)

\* the symbol info {val, type} stored in llvm_symbol_table
LLVM_Symbol_Info(val, type) == [val |-> val, type |-> type]

\* llvm_symbol_table.insert(name, new LLVM_Symbol_Info{val, type})
symtab_insert(st, name, val, type) ==
    IF st.err # "" THEN st
    ELSE [st EXCEPT !.symtab = smap_insert(@, name, LLVM_Symbol_Info(val, type))]

\* loop_terminals.push(terminals)
loop_terminals_push(st, loop_condition, loop_end) ==
    IF st.err # "" THEN st
    ELSE [st EXCEPT !.loop_terminals =
              Append(@, [loop_condition |-> loop_condition, loop_end |-> loop_end])]

loop_terminals_pop_Skipped(st) == st

\* loop_terminals.pop()
loop_terminals_pop(st) ==
    IF st.err # "" THEN st
    ELSE [st EXCEPT !.loop_terminals = SubSeq(@, 1, Len(@) - 1)]

\* _module->getFunction(function_name): 0 when the module has none
getFunction(st, function_name) ==
    IF \E i \in 1..Len(st.funcs) : st.funcs[i].name = function_name /\ ~st.funcs[i].renamed
    THEN CHOOSE i \in 1..Len(st.funcs) :
             st.funcs[i].name = function_name /\ ~st.funcs[i].renamed
    ELSE 0

\* ------------------------------------------------------------------------
\*            the AST nodes the emitter walks (struct AST_*)
\* ------------------------------------------------------------------------
TypedLiteral(type, val) == [expr_type |-> "EXPR_LITERAL", type |-> type, value |-> val]

Function_Parameter(type, name) == [type |-> type, name |-> name]

FunctionDefinition(return_type, function_name, params, is_prototype, block) ==
    [expr_type |-> "EXPR_FUNC_DEF", return_type |-> return_type,
     function_name |-> function_name, params |-> params,
     is_prototype |-> is_prototype, block |-> block]

If(condition, block, else_block) ==
    [expr_type |-> "EXPR_IF", condition |-> condition, block |-> block,
     else_block |-> else_block]

For(init, condition, increment, block) ==
    [expr_type |-> "EXPR_FOR", init |-> init, condition |-> condition,
     increment |-> increment, block |-> block]

While(condition, block) ==
    [expr_type |-> "EXPR_WHILE", condition |-> condition, block |-> block]

Unary(op, expr, is_postfix) ==
    [expr_type |-> "EXPR_UNARY", op |-> op, expr |-> expr, is_postfix |-> is_postfix]

Return(value) == [expr_type |-> "EXPR_RETURN", value |-> value]

Jump(jump_type) == [expr_type |-> "EXPR_JUMP", jump_type |-> jump_type]

Block(block) == [expr_type |-> "EXPR_BLOCK", block |-> block]

\* ------------------------------------------------------------------------
\*                 generate_ir (ir_generator.cpp, ir_generator.h)
\* ------------------------------------------------------------------------
\* generate_ir(expr, st, path) is the emission state after the node's
\* instructions; its val is the llvm::Value* returned (NullVal: nullptr).
\* path is the position of the statement being emitted: the indices, from
\* the function's block inwards, of the statements that contain it.
\* A generate_ir that uses the result of a nested generate_ir more than once
\* continues in an operator of its own that takes that result as a parameter;
\* the operator is named after the function and the point it continues from.

RECURSIVE generate_ir(_, _, _)
RECURSIVE generate_block_ir_from(_, _, _, _)
RECURSIVE generate_call_from(_, _, _, _, _)
RECURSIVE generate_ir__logical(_, _, _, _, _)

\* the operations below act on the value just returned (st.val)
CreateCondBr_val(st, iftrue, iffalse) == CreateCondBr(st, st.val, iftrue, iffalse)

CreateStore_val(st, ptr) == CreateStore(st, st.val, ptr)

\* the store of val to the pointer just returned
CreateStore_to_val(st, val) == CreateStore(st, val, st.val)

CreateRet_val(st) == CreateRet(st, st.val)

\* the operation with the value just returned as its right operand
CreateOp_val(st, op, type, left) == CreateOp(st, op, type, <<left, st.val>>)

\* the phi whose second incoming value is the value just returned
CreatePHI_val(st, val1, block1, block2) == CreatePHI(st, val1, block1, st.val, block2)

\* _builder->GetInsertBlock() followed by the throw_ir_error for nullptr
require_insert_block(st, message) ==
    IF st.err = "" /\ st.ip = 0 THEN throw_ir_error(st, message) ELSE st

\* the entry at the bottom of the stack
loop_terminals_top_Bottom(st) == st.loop_terminals[1]

\* loop_terminals.top()
loop_terminals_top(st) == st.loop_terminals[Len(st.loop_terminals)]

symtab_insert_val(st, name, type) == symtab_insert(st, name, st.val, type)

\* has_return || CreateBr(dest), for the state a generate_block_ir left
CreateBr_unless_return(st, dest) == IF st.ret THEN st ELSE CreateBr(st, dest)

AST_Identifier_generate_ir_pointer(expr, st) ==
    IF st.err # "" THEN st
    ELSE LET sym_info == smap_lookup(st.symtab, expr.name) IN
         IF sym_info = NULL_VALUE
         THEN throw_ir_error(st, "Undefined identifier encountered.")
         ELSE IF IsNull(sym_info.val)
         THEN throw_ir_error(st, "Undefined identifier encountered.")
         ELSE SetVal(st, sym_info.val)

AST_Identifier_generate_ir(expr, st) ==
    IF st.err # "" THEN st
    ELSE LET sym_info == smap_lookup(st.symtab, expr.name) IN
         IF sym_info = NULL_VALUE
         THEN throw_ir_error(st, "Undefined identifier encountered.")
         ELSE CreateLoad(st, sym_info.type, sym_info.val)

\* a string literal makes a private constant global holding the characters
AST_Literal_generate_ir(expr, st) ==
    IF st.err # "" THEN st
    ELSE CASE expr.type = "T_BOOL" -> SetVal(st, ConstVal("i1", expr.value))
           [] expr.type = "T_INT" -> SetVal(st, ConstVal("i32", expr.value))
           [] expr.type = "T_FLOAT" -> SetVal(st, ConstVal("float", expr.value))
           [] expr.type = "T_CHAR" -> SetVal(st, ConstVal("i8", expr.value))
           [] expr.type = "T_STRING" ->
                [st EXCEPT !.globals = Append(@, [name |-> ".str", type |-> "i8 array",
                                                  init |-> ConstVal("i8 array", expr.value),
                                                  is_constant |-> TRUE]),
                           !.val = ConstVal("ptr", <<".str", expr.value>>)]
           [] OTHER -> throw_ir_error(st, "Unidentified literal type encountered.")

\* val->getType()->isPointerTy() ? CreateLoad(pointer type, val) : val
load_if_pointer(st, val) ==
    IF ~IsNull(val) /\ IsPointerTy(val.type) THEN CreateLoad(st, "ptr", val)
    ELSE SetVal(st, val)

load_if_pointer_val(st) == load_if_pointer(st, st.val)

compound_assignment_op(op) ==
    CASE op = TOKEN_PLUSEQ -> "add"
      [] op = TOKEN_MINUSEQ -> "sub"
      [] op = TOKEN_MULTIPLYEQ -> "mul"
      [] op = TOKEN_DIVIDEEQ -> "sdiv"
      [] op = TOKEN_MODEQ -> "srem"
      [] op = TOKEN_LSHIFT_EQ -> "shl"
      [] op = TOKEN_RSHIFT_EQ -> "ashr"
      [] op = TOKEN_ANDEQ -> "and"
      [] op = TOKEN_OREQ -> "or"
      [] op = TOKEN_BIT_ANDEQ -> "and"
      [] op = TOKEN_BIT_OREQ -> "or"
      [] op = TOKEN_XOREQ -> "xor"
      [] OTHER -> ""

binary_value_op(op) ==
    CASE op = TOKEN_PLUS -> "add"
      [] op = TOKEN_MINUS -> "sub"
      [] op = TOKEN_STAR -> "mul"
      [] op = TOKEN_DIVIDE -> "sdiv"
      [] op = TOKEN_MOD -> "srem"
      [] op = TOKEN_LESS -> "icmp slt"
      [] op = TOKEN_GREATER -> "icmp sgt"
      [] op = TOKEN_LESSEQ -> "icmp sle"
      [] op = TOKEN_GREATEREQ -> "icmp sge"
      [] op = TOKEN_EQUAL -> "icmp eq"
      [] op = TOKEN_NOTEQ -> "icmp ne"
      [] op = TOKEN_LSHIFT -> "shl"
      [] op = TOKEN_RSHIFT -> "ashr"
      [] op = TOKEN_BIT_OR -> "or"
      [] op = TOKEN_XOR -> "xor"
      [] op = TOKEN_AMPERSAND -> "and"
      [] OTHER -> ""

\* the type of the value an instruction of the given opcode produces
result_type(op, operand_type) ==
    IF op \in {"icmp slt", "icmp sgt", "icmp sle", "icmp sge", "icmp eq", "icmp ne"}
    THEN "i1" ELSE operand_type


\* the operands of CreateCondBr in generate_ir__logical_and (L, andright,
\* andend) and in generate_ir__logical_or (L, orend, orright)
logical_branch_targets_Swapped(is_and, right_block, end_block) ==
    IF is_and THEN <<end_block, right_block>> ELSE <<right_block, end_block>>

logical_branch_targets(is_and, right_block, end_block) ==
    IF is_and THEN <<right_block, end_block>> ELSE <<end_block, right_block>>

\* the history entry of a logical operator, made when its right operand has
\* been emitted: the block that received the conditional branch, the right
\* block, and the blocks made while the right operand was emitted
LogLogical(st, is_and, cond_block, right_block, end_block, first_new) ==
    Log(st, [ev |-> "logical", is_and |-> is_and, cond_block |-> cond_block,
             right |-> right_block, end |-> end_block,
             region |-> {right_block} \cup (first_new..Len(st.blocks))])

\* generate_ir__logical from `if (!R) return nullptr` on; r is the state
\* after the right operand
generate_ir__logical__end(is_and, current_block, right_block, end_block, r) ==
    IF IsNull(r.val) THEN r
    ELSE CreatePHI_val(
             SetInsertPoint(CreateBr(cast_llvm_value_to_bool(r, r.val), end_block), end_block),
             ConstVal("i1", IF is_and THEN 0 ELSE 1), current_block, right_block)

\* generate_ir__logical from `if (!L) return nullptr` on; l is the state
\* after the left operand
generate_ir__logical__right(is_and, right, current_block, right_block, end_block, l, path) ==
    IF IsNull(l.val) THEN l
    ELSE generate_ir__logical__end(
             is_and, current_block, right_block, end_block,
             LogLogical(
                 generate_ir(right,
                             SetInsertPoint(
                                 CreateCondBr_val(
                                     cast_llvm_value_to_bool(l, l.val),
                                     logical_branch_targets(is_and, right_block, end_block)[1],
                                     logical_branch_targets(is_and, right_block, end_block)[2]),
                                 right_block),
                             path),
                 is_and, l.ip, right_block, end_block, Len(l.blocks) + 1))

\* the common body of generate_ir__logical_and and generate_ir__logical_or
generate_ir__logical(is_and, left, right, st, path) ==
    IF st.err # "" THEN st
    ELSE IF st.ip = 0
    THEN throw_ir_error(st, "crash: current_block->getParent() on nullptr")
    ELSE generate_ir__logical__right(
             is_and, right, st.ip, NextBlock(st, 1), NextBlock(st, 2),
             generate_ir(left,
                         CreateBlock(CreateBlock(st, IF is_and THEN "andright" ELSE "orright"),
                                     IF is_and THEN "andend" ELSE "orend"),
                         path),
             path)

generate_ir__logical_and(left, right, st, path) ==
    generate_ir__logical(TRUE, left, right, st, path)

generate_ir__logical_or(left, right, st, path) ==
    generate_ir__logical(FALSE, left, right, st, path)

\* AST_Binary_Expression::generate_ir from the load of Lval's and Rval's
\* values on; lv is the state after Lval was loaded
AST_Binary_Expression_generate_ir__result(expr, L, Rval, lv) ==
    IF IsNull(lv.val)
    THEN throw_ir_error(load_if_pointer(lv, Rval), "crash: operation on a null value")
    ELSE IF compound_assignment_op(expr.op) # ""
    THEN CreateStore_val(CreateOp_val(load_if_pointer(lv, Rval),
                                      compound_assignment_op(expr.op),
                                      lv.val.type, lv.val),
                         L)
    ELSE IF binary_value_op(expr.op) # ""
    THEN CreateOp_val(load_if_pointer(lv, Rval), binary_value_op(expr.op),
                      result_type(binary_value_op(expr.op), lv.val.type), lv.val)
    ELSE SetVal(load_if_pointer(lv, Rval), NullVal)

\* AST_Binary_Expression::generate_ir from `if (!L) return Rval` on; r is
\* the state after the right operand
AST_Binary_Expression_generate_ir__operate(expr, L, r, path) ==
    IF IsNull(L) THEN r
    ELSE IF IsNull(r.val)
    THEN (IF expr.left.expr_type = "EXPR_IDENT" THEN generate_ir(expr.left, r, path)
          ELSE SetVal(r, L))
    ELSE IF expr.op = TOKEN_ASSIGN
    THEN CreateStore_val(load_if_pointer(r, r.val), L)
    ELSE AST_Binary_Expression_generate_ir__result(
             expr, L, r.val, load_if_pointer_val(generate_ir(expr.left, r, path)))

\* AST_Binary_Expression::generate_ir from the right operand on; l is the
\* state after the left operand
AST_Binary_Expression_generate_ir__right(expr, l, path) ==
    AST_Binary_Expression_generate_ir__operate(
        expr, l.val,
        IF expr.right = NULL_EXPR THEN SetVal(l, NullVal)
        ELSE generate_ir(expr.right, l, path),
        path)

AST_Binary_Expression_generate_ir(expr, st, path) ==
    IF st.err # "" THEN st
    ELSE IF expr.op = TOKEN_AND
    THEN generate_ir__logical_and(expr.left, expr.right, st, path)
    ELSE IF expr.op = TOKEN_OR
    THEN generate_ir__logical_or(expr.left, expr.right, st, path)
    ELSE AST_Binary_Expression_generate_ir__right(
             expr,
             IF expr.left = NULL_EXPR THEN SetVal(st, NullVal)
             ELSE IF expr.left.expr_type = "EXPR_IDENT"
             THEN AST_Identifier_generate_ir_pointer(expr.left, st)
             ELSE generate_ir(expr.left, st, path),
             path)

\* the ! and ~ cases, v being the state after the operand
AST_Unary_Expression_generate_ir__not(expr, v) ==
    IF IsNull(v.val) THEN throw_ir_error(v, "crash: val->getType() on nullptr")
    ELSE IF expr.op = TOKEN_NOT
    THEN CreateOp(v, "icmp eq", "i1", <<v.val, ConstVal(v.val.type, 0)>>)
    ELSE CreateOp(v, "xor", v.val.type, <<v.val, ConstVal(v.val.type, -1)>>)

\* the history entries of a ++ or --: what the emitter was given, and what it
\* returned for which address
LogIncDec(st, expr, path) ==
    Log(st, [ev |-> "incdec", path |-> path, expr |-> expr, nv |-> st.nv, ip |-> st.ip])

LogIncDecEnd(st, val_addr) ==
    Log(st, [ev |-> "incdecend", val |-> st.val, addr |-> val_addr, nv |-> st.nv])

incdec_result_Swapped(expr, val, new_val) == IF expr.is_postfix THEN new_val ELSE val

\* return (is_postfix) ? val : new_val;
incdec_result(expr, val, new_val) == IF expr.is_postfix THEN val ELSE new_val

\* the ++ and -- cases from the creation of new_val on, val being the state
\* after the operand's value was loaded
AST_Unary_Expression_generate_ir__store(expr, val_addr, val) ==
    LogIncDecEnd(
        SetVal(CreateStore_val(
                   CreateOp(val, "add", val.val.type,
                            <<val.val, ConstVal(val.val.type,
                                                IF expr.op = TOKEN_INCREMENT THEN 1 ELSE -1)>>),
                   val_addr),
               incdec_result(
                   expr, val.val,
                   CreateOp(val, "add", val.val.type,
                            <<val.val, ConstVal(val.val.type,
                                                IF expr.op = TOKEN_INCREMENT THEN 1 ELSE -1)>>).val)),
        val_addr)

\* the ++ and -- cases from the operand's value on, a being the state after
\* generate_ir_pointer
AST_Unary_Expression_generate_ir__value(expr, a, path) ==
    AST_Unary_Expression_generate_ir__store(
        expr, a.val, load_if_pointer_val(generate_ir(expr.expr, a, path)))

AST_Unary_Expression_generate_ir(expr, st, path) ==
    IF st.err # "" THEN st
    ELSE IF expr.op \in {TOKEN_NOT, TOKEN_BIT_NOT}
    THEN AST_Unary_Expression_generate_ir__not(expr, generate_ir(expr.expr, st, path))
    ELSE IF expr.op \in {TOKEN_INCREMENT, TOKEN_DECREMENT}
    THEN IF expr.expr.expr_type # "EXPR_IDENT"
         THEN throw_ir_error(LogIncDec(st, expr, path),
                             "Cannot increment/decrement a non-lvalue expression).")
         ELSE AST_Unary_Expression_generate_ir__value(
                  expr, AST_Identifier_generate_ir_pointer(expr.expr, LogIncDec(st, expr, path)),
                  path)
    ELSE throw_ir_error(st, "Invalid unary operator encountered.")

\* one turn of the for loop over params, a being the state after the argument
generate_call_from__arg(expr, i, args, a, path) ==
    IF IsNull(a.val) THEN a
    ELSE generate_call_from(expr, i + 1, Append(args, a.val), a, path)

\* the for loop over params of AST_Function_Call::generate_ir from index i
\* and, after it, CreateCall(callee, args)
generate_call_from(expr, i, args, st, path) ==
    IF st.err # "" THEN st
    ELSE IF i > Len(expr.params)
    THEN Insert(st, "call", st.funcs[getFunction(st, expr.function_name)].ret,
                <<ConstVal("function", expr.function_name)>> \o args, <<>>)
    ELSE generate_call_from__arg(expr, i, args, generate_ir(expr.params[i], st, path), path)

AST_Function_Call_generate_ir(expr, st, path) ==
    IF st.err # "" THEN st
    ELSE IF st.ip = 0
    THEN throw_ir_error(st, "(FATAL) Cannot find parent IR block for function call.")
    ELSE IF getFunction(st, expr.function_name) = 0
    THEN throw_ir_error(st, "Invalid function call.")
    ELSE generate_call_from(expr, 1, <<>>, st, path)

\* _builder->GetInsertBlock()->getParent()->getReturnType()
current_return_type(st) == st.funcs[st.blocks[st.ip].fn].ret

\* AST_Return_Expression::generate_ir from `if (!val) return nullptr` on
AST_Return_Expression_generate_ir__value(v) ==
    IF IsNull(v.val) THEN v
    ELSE IF v.val.type = current_return_type(v) THEN CreateRet(v, v.val)
    ELSE IF IsIntegerTy(v.val.type) /\ IsIntegerTy(current_return_type(v))
    THEN CreateRet_val(CreateOp(v, "intcast", current_return_type(v), <<v.val>>))
    ELSE throw_ir_error(v, "Return value type does not match the function return type.")

\* the history entry of a return statement that has emitted its ret; from is
\* the insertion block the statement found
LogReturnEnd(st, path, from) ==
    IF IsNull(st.val) THEN st
    ELSE Log(st, [ev |-> "returnend", path |-> path, from |-> from,
                  nv |-> st.nv, ip |-> st.ip])

AST_Return_Expression_generate_ir(expr, st, path) ==
    IF st.err # "" THEN st
    ELSE LogReturnEnd(
             IF expr.value = NULL_EXPR THEN CreateRetVoid(st)
             ELSE AST_Return_Expression_generate_ir__value(generate_ir(expr.value, st, path)),
             path, st.ip)

\* the block a continue branches to, given the terminals on top of the stack
continue_target_LoopEnd(current) == current.loop_end

continue_target(current) == current.loop_condition

\* the block the jump statement branches to
jump_target(expr, current) ==
    IF expr.jump_type = "J_BREAK" THEN current.loop_end ELSE continue_target(current)

\* the history entry of a jump statement that has been emitted
LogJumpEnd(st, path) ==
    Log(st, [ev |-> "jumpend", path |-> path, stack |-> st.loop_terminals,
             nv |-> st.nv, ip |-> st.ip])

AST_Jump_Expression_generate_ir(expr, st, path) ==
    IF st.err # "" THEN st
    ELSE IF st.loop_terminals = <<>>
    THEN throw_ir_error(st, "'break'/'continue' cannot be used outside a loop.")
    ELSE IF expr.jump_type \notin {"J_BREAK", "J_CONTINUE"}
    THEN throw_ir_error(st, "Invalid jump type encountered.")
    ELSE LogJumpEnd(SetVal(
             SetInsertPoint(
                 CreateBlock(
                     require_insert_block(
                         Log(CreateBr(st, jump_target(expr, loop_terminals_top(st))),
                             [ev |-> "jump", path |-> path, jump_type |-> expr.jump_type,
                              from |-> st.ip, stack |-> st.loop_terminals, nv |-> st.nv,
                              target |-> jump_target(expr, loop_terminals_top(st))]),
                         "(FATAL) Cannot find parent IR block for jump statement."),
                     "jumpend"),
                 NextBlock(st, 1)),
             NullVal), path)

\* generate_block_ir after the generate_ir of statement i, r being the state
\* that generate_ir left
generate_block_ir_from__next(block, i, r, path) ==
    IF block[i].expr_type = "EXPR_RETURN" THEN SetRet(r, TRUE)
    ELSE IF block[i].expr_type = "EXPR_JUMP" THEN SetRet(r, FALSE)
    ELSE generate_block_ir_from(block, i + 1, r, path)

\* the for loop of generate_block_ir from index i; ret tells whether a
\* return statement ended it. Each statement emitted is logged with the
\* depth of loop_terminals at that moment.
generate_block_ir_from(block, i, st, path) ==
    IF st.err # "" THEN st
    ELSE IF i > Len(block) THEN SetRet(st, FALSE)
    ELSE IF block[i] = NULL_EXPR THEN generate_block_ir_from(block, i + 1, st, path)
    ELSE generate_block_ir_from__next(
             block, i,
             generate_ir(block[i],
                         Log(st, [ev |-> "stmt", path |-> Append(path, i), expr |-> block[i],
                                  ip |-> st.ip, depth |-> Len(st.loop_terminals),
                                  nv |-> st.nv]),
                         Append(path, i)),
             path)

generate_block_ir(block, st, path) == generate_block_ir_from(block, 1, st, path)

AST_Block_Expression_generate_ir(expr, st, path) ==
    SetVal(generate_block_ir(expr.block, st, path), NullVal)

\* the statements emitted into the else block (ir_generator.cpp:221)
else_branch_statements(expr) == expr.block

\* AST_If_Expression::generate_ir from `if (!_condition) return nullptr` on;
\* c is the state after the condition, and the three blocks are the next
\* three the module gets
AST_If_Expression_generate_ir__branches(expr, c, _then, _else, _ifend, path) ==
    IF IsNull(c.val) THEN c
    ELSE
    LET s1 == require_insert_block(CreateICmpNEZero(c),
                                   "(FATAL) Cannot find parent IR block for 'if' statement.")
        s4 == CreateBlock(CreateBlock(CreateBlock(s1, "then"), "else"), "ifend")
        s5 == SetInsertPoint(CreateCondBr_val(s4, _then, _else), _then)
        s6 == CreateBr_unless_return(generate_block_ir(expr.block, s5, path), _ifend)
        s7 == SetInsertPoint(Log(s6, [ev |-> "else", path |-> path]), _else)
        s8 == CreateBr_unless_return(
                  generate_block_ir(else_branch_statements(expr), s7, path), _ifend)
        s9 == Log(s8, [ev |-> "if", path |-> path, cond_block |-> c.ip,
                       then |-> _then, else |-> _else, ifend |-> _ifend])
    IN SetVal(SetInsertPoint(s9, _ifend), NullVal)

AST_If_Expression_generate_ir__condition(expr, c, path) ==
    AST_If_Expression_generate_ir__branches(
        expr, c, NextBlock(c, 1), NextBlock(c, 2), NextBlock(c, 3), path)

AST_If_Expression_generate_ir(expr, st, path) ==
    IF st.err # "" THEN st
    ELSE AST_If_Expression_generate_ir__condition(
             expr, generate_ir(expr.condition, st, path), path)

\* the history entry of a loop statement, made when the statement has been
\* emitted: its blocks, the block the body's fall-through end was emitted to
\* (0: none), and the depth of loop_terminals before and after the statement
LogLoop(st, kind, path, early, cond, body, inc, end, fall, before) ==
    Log(st, [ev |-> "loop", kind |-> kind, path |-> path, early |-> early,
             cond |-> cond, body |-> body, inc |-> inc, end |-> end, fall |-> fall,
             before |-> before, after |-> Len(st.loop_terminals)])

\* AST_For_Expression::generate_ir from `if (!has_return) CreateBr(_forinc)`
\* on; b is the state after the body
AST_For_Expression_generate_ir__increment(expr, before, _forcond, _forbody, _forinc, _forend, b, path) ==
    LET s11 == SetInsertPoint(CreateBr_unless_return(b, _forinc), _forinc)
        s12 == IF expr.increment = NULL_EXPR THEN s11
               ELSE generate_ir(expr.increment, s11, path)
        s13 == SetInsertPoint(CreateBr(s12, _forcond), _forend)
        s14 == loop_terminals_pop(s13)
    IN SetVal(LogLoop(s14, "for", path, FALSE, _forcond, _forbody, _forinc, _forend,
                      IF b.ret THEN 0 ELSE b.ip, before),
              NullVal)

\* AST_For_Expression::generate_ir from the conditional branch on; c is the
\* state after the condition (val null: no condition, or one without a value)
AST_For_Expression_generate_ir__body(expr, before, _forcond, _forbody, _forinc, _forend, c, path) ==
    LET cmp == IF IsNull(c.val) THEN SetVal(c, ConstVal("i1", 1)) ELSE CreateICmpNEZero(c)
        s7 == CreateCondBr_val(cmp, _forbody, _forend)
        s8 == loop_terminals_push(s7, _forcond, _forend)
        s9 == SetInsertPoint(s8, _forbody)
    IN AST_For_Expression_generate_ir__increment(
           expr, before, _forcond, _forbody, _forinc, _forend,
           generate_block_ir(expr.block, s9, path), path)

\* AST_For_Expression::generate_ir from the creation of the four blocks on;
\* s is the state after the init expression
AST_For_Expression_generate_ir__blocks(expr, before, _forcond, _forbody, _forinc, _forend, s, path) ==
    LET s5 == CreateBlock(CreateBlock(CreateBlock(CreateBlock(s, "forcond"), "forbody"),
                                      "forinc"),
                          "forend")
        s6 == SetInsertPoint(CreateBr(s5, _forcond), _forcond)
    IN AST_For_Expression_generate_ir__body(
           expr, before, _forcond, _forbody, _forinc, _forend,
           IF expr.condition = NULL_EXPR THEN SetVal(s6, NullVal)
           ELSE generate_ir(expr.condition, s6, path),
           path)

AST_For_Expression_generate_ir__init(expr, before, s, path) ==
    AST_For_Expression_generate_ir__blocks(
        expr, before, NextBlock(s, 1), NextBlock(s, 2), NextBlock(s, 3), NextBlock(s, 4),
        s, path)

AST_For_Expression_generate_ir(expr, st, path) ==
    IF st.err # "" THEN st
    ELSE IF st.ip = 0
    THEN throw_ir_error(st, "(FATAL) Cannot find parent IR block for 'for' statement.")
    ELSE AST_For_Expression_generate_ir__init(
             expr, Len(st.loop_terminals),
             IF expr.init = NULL_EXPR THEN st ELSE generate_ir(expr.init, st, path),
             path)

\* AST_While_Expression::generate_ir from `if (!has_return) CreateBr(_whilecond)`
\* on; b is the state after the body
AST_While_Expression_generate_ir__end(before, _whilecond, _body, _whileend, b, path) ==
    SetVal(LogLoop(loop_terminals_pop(
                       SetInsertPoint(CreateBr_unless_return(b, _whilecond), _whileend)),
                   "while", path, FALSE, _whilecond, _body, 0, _whileend,
                   IF b.ret THEN 0 ELSE b.ip, before),
           NullVal)

\* AST_While_Expression::generate_ir from `if (!_condition) return nullptr`
\* on; c is the state after the condition
AST_While_Expression_generate_ir__body(expr, before, _whilecond, _body, _whileend, c, path) ==
    IF IsNull(c.val)
    THEN LogLoop(c, "while", path, TRUE, _whilecond, _body, 0, _whileend, 0, before)
    ELSE
    LET s5 == loop_terminals_push(CreateICmpNEZero(c), _whilecond, _whileend)
        s6 == SetInsertPoint(CreateCondBr_val(s5, _body, _whileend), _body)
    IN AST_While_Expression_generate_ir__end(
           before, _whilecond, _body, _whileend,
           generate_block_ir(expr.block, s6, path), path)

AST_While_Expression_generate_ir__condition(expr, _whilecond, _body, _whileend, st, path) ==
    LET s3 == CreateBlock(CreateBlock(CreateBlock(st, "whilecond"), "whilebody"), "whileend")
        s4 == SetInsertPoint(CreateBr(s3, _whilecond), _whilecond)
    IN AST_While_Expression_generate_ir__body(
           expr, Len(st.loop_terminals), _whilecond, _body, _whileend,
           generate_ir(expr.condition, s4, path), path)

AST_While_Expression_generate_ir(expr, st, path) ==
    IF st.err # "" THEN st
    ELSE IF st.ip = 0
    THEN throw_ir_error(st, "(FATAL) Cannot find parent IR block for 'while' statement.")
    ELSE AST_While_Expression_generate_ir__condition(
             expr, NextBlock(st, 1), NextBlock(st, 2), NextBlock(st, 3), st, path)

AST_Declaration_generate_ir(expr, st) ==
    IF st.err # "" THEN st
    ELSE IF st.ip = 0
    THEN throw_ir_error(st, "(FATAL) Cannot find parent IR block for declaration.")
    ELSE symtab_insert_val(
             CreateEntryAlloca(st, llvm_type_map(expr.data_type), expr.variable_name),
             expr.variable_name, llvm_type_map(expr.data_type))

\* the virtual call expr->generate_ir(_context, _builder, _module)
generate_ir(expr, st, path) ==
    IF st.err # "" THEN st
    ELSE CASE expr.expr_type = "EXPR_IDENT" -> AST_Identifier_generate_ir(expr, st)
           [] expr.expr_type = "EXPR_LITERAL" -> AST_Literal_generate_ir(expr, st)
           [] expr.expr_type = "EXPR_IF" -> AST_If_Expression_generate_ir(expr, st, path)
           [] expr.expr_type = "EXPR_FOR" -> AST_For_Expression_generate_ir(expr, st, path)
           [] expr.expr_type = "EXPR_WHILE" -> AST_While_Expression_generate_ir(expr, st, path)
           [] expr.expr_type = "EXPR_DECL" -> AST_Declaration_generate_ir(expr, st)
           [] expr.expr_type = "EXPR_UNARY" -> AST_Unary_Expression_generate_ir(expr, st, path)
           [] expr.expr_type = "EXPR_BINARY" -> AST_Binary_Expression_generate_ir(expr, st, path)
           [] expr.expr_type = "EXPR_FUNC_CALL" -> AST_Function_Call_generate_ir(expr, st, path)
           [] expr.expr_type = "EXPR_RETURN" -> AST_Return_Expression_generate_ir(expr, st, path)
           [] expr.expr_type = "EXPR_JUMP" -> AST_Jump_Expression_generate_ir(expr, st, path)
           [] expr.expr_type = "EXPR_BLOCK" -> AST_Block_Expression_generate_ir(expr, st, path)

\* the for loop over _f->args() of AST_Function_Definition::generate_ir
RECURSIVE function_args_from(_, _, _)
function_args_from(params, index, st) ==
    IF st.err # "" \/ index > Len(params) THEN st
    ELSE function_args_from(
             params, index + 1,
             symtab_insert_val(
                 CreateStore_to_val(
                     CreateEntryAlloca(st, llvm_type_map(params[index].type),
                                       params[index].name),
                     ArgVal(llvm_type_map(params[index].type), params[index].name)),
                 params[index].name, llvm_type_map(params[index].type)))

\* llvm::Function::Create: a name the module already has is made unique by
\* renaming the new function
Function_Create(st, return_type, function_name, param_types, is_prototype) ==
    [st EXCEPT !.funcs = Append(@, [name |-> function_name, ret |-> return_type,
                                    params |-> param_types, proto |-> is_prototype,
                                    renamed |-> getFunction(st, function_name) # 0])]

\* the history entry of a function body that has been emitted: what
\* generate_block_ir returned, the insertion block and how many instructions
\* it holds
LogBodyEnd(st) ==
    Log(st, [ev |-> "bodyend", ret |-> st.ret, ip |-> st.ip, nv |-> st.nv,
             len |-> IF st.ip = 0 THEN 0 ELSE Len(st.blocks[st.ip].instrs)])

implicit_return_void_Skipped(expr, b) == b

\* if (!has_return_expression_in_block && llvm_return_type->isVoidTy())
\*     _builder->CreateRetVoid();
implicit_return_void(expr, b) ==
    IF ~b.ret /\ llvm_type_map(expr.return_type) = "void" THEN CreateRetVoid(b) ELSE b

\* AST_Function_Definition::generate_ir from the implicit `ret void` up to
\* the call of llvm::verifyFunction; b is the state after the body
AST_Function_Definition_generate_ir__end(expr, b) ==
    SetVal(implicit_return_void(expr, LogBodyEnd(b)),
           ConstVal("function", expr.function_name))

\* AST_Function_Definition::generate_ir after llvm::Function::Create; s1 is
\* the state with the new function _f
AST_Function_Definition_generate_ir__body(expr, _f, s1) ==
    IF expr.is_prototype THEN SetVal(s1, ConstVal("function", expr.function_name))
    ELSE AST_Function_Definition_generate_ir__end(
             expr,
             generate_block_ir(
                 expr.block,
                 function_args_from(
                     expr.params, 1,
                     SetInsertPoint(CreateBlock([s1 EXCEPT !.fn = _f], "entry"),
                                    NextBlock(s1, 1))),
                 <<>>))

AST_Function_Definition_generate_ir(expr, st) ==
    IF st.err # "" THEN st
    ELSE AST_Function_Definition_generate_ir__body(
             expr, Len(st.funcs) + 1,
             Function_Create(st, llvm_type_map(expr.return_type), expr.function_name,
                             [i \in 1..Len(expr.params) |-> llvm_type_map(expr.params[i].type)],
                             expr.is_prototype))

\* new llvm::GlobalVariable(*_module, var_type, false, ExternalLinkage, init, name)
GlobalVariable_Create(st, var_type, init, name) ==
    IF st.err # "" THEN st
    ELSE [st EXCEPT !.globals = Append(@, [name |-> name, type |-> var_type,
                                           init |-> init, is_constant |-> FALSE])]

\* the global variable of a declaration: created, entered in
\* llvm_symbol_table, and returned
global_variable(st, decl, init) ==
    SetVal(symtab_insert(GlobalVariable_Create(st, llvm_type_map(decl.data_type), init,
                                               decl.variable_name),
                         decl.variable_name, GlobalVal(decl.variable_name),
                         llvm_type_map(decl.data_type)),
           GlobalVal(decl.variable_name))

\* the assignment case without the check of right_val
generate_ir__global_declaration__init_Unchecked(decl, right_val) ==
    global_variable(right_val, decl, right_val.val)

\* the assignment case from the check of right_val on
generate_ir__global_declaration__init(decl, right_val) ==
    IF ~IsConstant(right_val.val)
    THEN throw_ir_error(right_val, "Global initializers must be constant expressions.")
    ELSE global_variable(right_val, decl, right_val.val)

generate_ir__global_declaration(expr, st) ==
    IF st.err # "" THEN st
    ELSE IF expr.expr_type = "EXPR_DECL"
    THEN global_variable(st, expr, ConstVal(llvm_type_map(expr.data_type), 0))
    ELSE IF expr.expr_type = "EXPR_BINARY"
    THEN IF expr.op # TOKEN_ASSIGN
         THEN throw_ir_error(st, "Global declaration can only be of assignment type.")
         ELSE generate_ir__global_declaration__init(expr.left,
                                                    generate_ir(expr.right, st, <<>>))
    ELSE throw_ir_error(st, "Invalid top-level expression encountered.")

\* ------------------------------------------------------------------------
\*                 emit_llvm_ir: inputs and specification
\* ------------------------------------------------------------------------
\* the most statements in a block of the innermost nesting level
MaxBlockLen == 2

VarX == Identifier("x")

VarY == Identifier("y")

One == TypedLiteral("T_INT", 1)

\* x < 1
CondLess == Binary(TOKEN_LESS, VarX, One)

\* x = 1
AssignX == Binary(TOKEN_ASSIGN, VarX, One)

\* x . y : an expression for which generate_ir returns nullptr
NoValueExpr == Binary(TOKEN_DOT, VarX, VarY)

LogicalExprs ==
    { Binary(TOKEN_AND, VarX, VarY),
      Binary(TOKEN_OR, VarX, VarY),
      Binary(TOKEN_AND, Binary(TOKEN_OR, VarX, VarY), VarX),
      Binary(TOKEN_AND, VarX, Binary(TOKEN_OR, VarY, VarX)),
      Binary(TOKEN_OR, Binary(TOKEN_AND, VarX, VarY), VarY),
      Binary(TOKEN_OR, VarX, Binary(TOKEN_AND, VarX, VarY)),
      Binary(TOKEN_AND, CondLess, Binary(TOKEN_AND, VarX, VarY)),
      Binary(TOKEN_AND, NoValueExpr, VarX),
      Binary(TOKEN_AND, VarX, NoValueExpr),
      Binary(TOKEN_OR, VarX, NoValueExpr),
      Binary(TOKEN_OR, One, VarX) }

LeafStatements ==
    { Jump("J_BREAK"), Jump("J_CONTINUE"), Return(NULL_EXPR), AssignX,
      Binary(TOKEN_OR, VarX, VarY) }

\* the blocks of at most n statements drawn from S
BlocksOf(S, n) == UNION { [1..k -> S] : k \in 0..n }

LeafBlocks == BlocksOf(LeafStatements, MaxBlockLen)

\* the compound statements with the given body
CompoundStatements(b) ==
    { For(AssignX, CondLess, AssignX, b), For(NULL_EXPR, NULL_EXPR, NULL_EXPR, b),
      While(CondLess, b), While(NoValueExpr, b), If(CondLess, b, <<>>),
      If(CondLess, b, <<Jump("J_BREAK")>>), Block(b) }

Level1Statements == UNION { CompoundStatements(b) : b \in LeafBlocks }

\* a compound statement alone, or with one simple statement before or after
MidBlocks ==
    { <<s>> : s \in Level1Statements }
    \cup { <<s, t>> : s \in Level1Statements, t \in LeafStatements }
    \cup { <<t, s>> : s \in Level1Statements, t \in {AssignX} }

Level2Statements ==
    UNION { { For(AssignX, CondLess, AssignX, m), While(CondLess, m) } : m \in MidBlocks }

LogicalStatements ==
    UNION { { e, If(e, <<AssignX>>, <<>>), While(e, <<Jump("J_BREAK")>>),
              For(NULL_EXPR, e, NULL_EXPR, <<Jump("J_CONTINUE")>>), Return(e),
              Binary(TOKEN_ASSIGN, VarX, e) } : e \in LogicalExprs }

\* loops nested deeper, with jumps at every level
DeepBlocks ==
    { << For(AssignX, CondLess, AssignX,
             << While(NoValueExpr, <<Jump("J_BREAK")>>),
                For(NULL_EXPR, NULL_EXPR, NULL_EXPR,
                    << If(CondLess, <<Jump("J_CONTINUE")>>, <<>>), Jump("J_BREAK") >>),
                Jump("J_CONTINUE") >>) >>,
      << While(CondLess,
               << For(AssignX, CondLess, AssignX,
                      << While(CondLess,
                               << If(CondLess, <<Jump("J_BREAK")>>, <<>>),
                                  Jump("J_CONTINUE") >>),
                         Block(<<Return(NULL_EXPR)>>),
                         Jump("J_BREAK") >>),
                  Jump("J_CONTINUE") >>),
         AssignX >> }

FunctionBlocks ==
    { <<s>> : s \in Level1Statements \cup Level2Statements \cup LogicalStatements }
    \cup { <<s, AssignX>> : s \in LogicalStatements }
    \cup DeepBlocks

ParamsXY == <<Function_Parameter("T_INT", "x"), Function_Parameter("T_INT", "y")>>

\* programs with globals, a prototype and two definitions
ModulePrograms ==
    { << g, FunctionDefinition("T_INT", "f", ParamsXY, TRUE, <<>>),
         FunctionDefinition("T_INT", "main", <<>>, FALSE, b) >> :
        g \in { Declaration("T_INT", "g"),
                Binary(TOKEN_ASSIGN, Declaration("T_INT", "g"), One),
                Binary(TOKEN_ASSIGN, Declaration("T_INT", "g"), FunctionCall("f", <<One, One>>)),
                Binary(TOKEN_PLUSEQ, Declaration("T_INT", "g"), One),
                Return(NULL_EXPR) },
        b \in { <<Return(One)>>,
                <<Binary(TOKEN_ASSIGN, Identifier("g"), FunctionCall("f", <<One, One>>)),
                  Return(Identifier("g"))>>,
                <<While(Identifier("g"), <<Jump("J_BREAK")>>), Return(One)>> } }

\* top-level expressions that are not function definitions
GlobalNodes ==
    { Declaration("T_INT", "g"),
      Declaration("T_BOOL", "h"),
      Binary(TOKEN_ASSIGN, Declaration("T_INT", "h"), One),
      Binary(TOKEN_ASSIGN, Declaration("T_INT", "h"), Binary(TOKEN_PLUS, One, One)),
      Binary(TOKEN_ASSIGN, Declaration("T_STRING", "s"), TypedLiteral("T_STRING", "a")),
      Binary(TOKEN_ASSIGN, Declaration("T_INT", "h"), Identifier("g")),
      Binary(TOKEN_ASSIGN, Declaration("T_INT", "h"), Binary(TOKEN_PLUS, Identifier("g"), One)),
      Binary(TOKEN_ASSIGN, Declaration("T_INT", "h"), FunctionCall("f", <<One, One>>)),
      Binary(TOKEN_PLUSEQ, Declaration("T_INT", "h"), One),
      Binary(TOKEN_PLUS, One, One),
      Identifier("g"),
      One,
      Jump("J_BREAK"),
      Return(One) }

\* programs of two globals, and of a global behind a function
GlobalPrograms ==
    { <<a, b>> : a, b \in GlobalNodes }
    \cup { <<FunctionDefinition("T_INT", "f", ParamsXY, FALSE, <<Return(VarX)>>), a>> :
               a \in GlobalNodes }

\* bodies with and without a return at their end, an empty body, a prototype
VoidPrograms ==
    { <<FunctionDefinition("T_VOID", "f", p, FALSE, b)>> :
          p \in {<<>>, ParamsXY},
          b \in {<<>>, <<AssignX>>, <<Return(NULL_EXPR)>>, <<AssignX, Return(NULL_EXPR)>>} }
    \cup { <<FunctionDefinition("T_VOID", "f", ParamsXY, TRUE, <<>>),
             FunctionDefinition(t, "main", <<>>, FALSE, b)>> :
               t \in {"T_VOID", "T_INT"},
               b \in {<<>>, <<FunctionCall("f", <<One, One>>)>>} }

\* ++ and -- before and behind a parameter, a global, an undeclared name and
\* operands that are no identifier
IncDecExprs ==
    { Unary(op, e, is_postfix) :
          op \in {TOKEN_INCREMENT, TOKEN_DECREMENT},
          e \in {VarX, Identifier("g"), Identifier("z"), One, Binary(TOKEN_PLUS, VarX, One),
                 Unary(TOKEN_INCREMENT, VarX, FALSE)},
          is_postfix \in BOOLEAN }

\* each of them as a statement, as the right side of an assignment and as
\* the value of a return
UnaryPrograms ==
    { <<Declaration("T_INT", "g"), FunctionDefinition("T_INT", "f", ParamsXY, FALSE, b)>> :
          b \in UNION { { <<u, Return(VarX)>>,
                          <<Binary(TOKEN_ASSIGN, VarY, u), Return(VarY)>>,
                          <<Return(u)>> } : u \in IncDecExprs } }

\* an if whose branches both return, and a return in a free-standing block
\* with statements behind it
TerminatorPrograms ==
    { <<FunctionDefinition(t, "f", ParamsXY, FALSE, b)>> :
          t \in {"T_VOID", "T_INT"},
          b \in { <<If(CondLess, <<Return(One)>>, <<Return(One)>>)>>,
                  <<If(CondLess, <<Return(NULL_EXPR)>>, <<Return(NULL_EXPR)>>)>>,
                  <<If(CondLess, <<Return(One)>>, <<Return(One)>>), Return(One)>>,
                  <<If(CondLess, <<AssignX>>, <<AssignX>>), Return(One)>>,
                  <<Block(<<Return(One)>>), AssignX>>,
                  <<Block(<<Return(NULL_EXPR)>>), AssignX>>,
                  <<Block(<<Return(One)>>), AssignX, Return(One)>>,
                  <<Block(<<AssignX>>), Return(One)>> } }

\* operands whose evaluation has an effect: g(1, 1), x++ and --y
CallG == FunctionCall("g", <<One, One>>)

IncX == Unary(TOKEN_INCREMENT, VarX, TRUE)

DecY == Unary(TOKEN_DECREMENT, VarY, FALSE)

\* binary expressions over identifiers, literals and operands with an effect
BinaryExprs ==
    { Binary(op, l, r) :
          op \in {TOKEN_PLUS, TOKEN_STAR, TOKEN_LESS},
          l \in {VarX, One, CallG, IncX, Binary(TOKEN_PLUS, VarX, CallG)},
          r \in {VarY, One, CallG, DecY} }
    \cup { Binary(op, VarX, r) : op \in {TOKEN_ASSIGN, TOKEN_PLUSEQ}, r \in {One, CallG, DecY} }

\* each of them as the one statement before the return of f, behind the
\* prototype of g
BinaryPrograms ==
    { <<FunctionDefinition("T_INT", "g", ParamsXY, TRUE, <<>>),
        FunctionDefinition("T_INT", "f", ParamsXY, FALSE, <<e, Return(VarX)>>)>> :
          e \in BinaryExprs }

\* int x; and z = 1;
DeclX == Declaration("T_INT", "x")

AssignZ == Binary(TOKEN_ASSIGN, Identifier("z"), One)

\* bodies that assign to a name before, in and behind the block that
\* declares it
ScopeBlocks ==
    { <<AssignX>>,
      <<DeclX, AssignX>>,
      <<Block(<<DeclX, AssignX>>), AssignX>>,
      <<AssignX, Block(<<DeclX, AssignX>>)>>,
      <<Declaration("T_INT", "z"), AssignZ, AssignX>>,
      <<Block(<<Declaration("T_INT", "z"), AssignZ>>), AssignZ>>,
      <<Block(<<Block(<<DeclX>>), AssignX>>), AssignX>> }

\* one function with and without a global x, and a function main that
\* assigns to x, with and without a global x, behind a function that has x
\* as a parameter or declares it
ScopePrograms ==
    { <<FunctionDefinition("T_VOID", "f", p, FALSE, b)>> : p \in {<<>>, ParamsXY}, b \in ScopeBlocks }
    \cup { <<DeclX, FunctionDefinition("T_VOID", "f", p, FALSE, b)>> :
               p \in {<<>>, ParamsXY}, b \in ScopeBlocks }
    \cup { g \o <<FunctionDefinition("T_VOID", "f", p, FALSE, b),
                   FunctionDefinition("T_VOID", "main", <<>>, FALSE, <<AssignX>>)>> :
               g \in {<<>>, <<DeclX>>},
               p \in {<<>>, ParamsXY},
               b \in {<<>>, <<AssignX>>, <<DeclX, AssignX>>} }

Programs ==
    { <<FunctionDefinition("T_VOID", "f", ParamsXY, FALSE, b)>> : b \in FunctionBlocks }
    \cup ModulePrograms \cup GlobalPrograms \cup VoidPrograms \cup UnaryPrograms
    \cup TerminatorPrograms \cup BinaryPrograms \cup ScopePrograms

InitEmit ==
    /\ program_ast \in Programs
    /\ emit_index = 1
    /\ ir = NewModule
    /\ emit_pc = "run"
    /\ ParserIdle
    /\ SymIdle
    /\ LexIdle
    /\ DriverIdle
    /\ SmapIdle

\* one turn of emit_llvm_ir's loop on a top-level expression that is not a
\* function definition
EmitGlobalDeclaration ==
    /\ emit_pc = "run"
    /\ emit_index <= Len(program_ast)
    /\ program_ast[emit_index].expr_type # "EXPR_FUNC_DEF"
    /\ \E r \in {generate_ir__global_declaration(program_ast[emit_index], ir)} :
           /\ ir' = r
           /\ emit_pc' = IF r.err # "" THEN "error" ELSE "run"
           /\ emit_index' = IF r.err # "" THEN emit_index ELSE emit_index + 1
    /\ UNCHANGED <<program_ast, notEmitVars>>

\* one turn of emit_llvm_ir's loop on a function definition
EmitFunctionDefinition ==
    /\ emit_pc = "run"
    /\ emit_index <= Len(program_ast)
    /\ program_ast[emit_index].expr_type = "EXPR_FUNC_DEF"
    /\ \E r \in {AST_Function_Definition_generate_ir(program_ast[emit_index], ir)} :
           /\ ir' = r
           /\ emit_pc' = IF r.err # "" THEN "error" ELSE "run"
           /\ emit_index' = IF r.err # "" THEN emit_index ELSE emit_index + 1
    /\ UNCHANGED <<program_ast, notEmitVars>>

\* the end of emit_llvm_ir's loop
VerifyModule ==
    /\ emit_pc = "run"
    /\ emit_index > Len(program_ast)
    /\ emit_pc' = "done"
    /\ UNCHANGED <<program_ast, emit_index, ir, notEmitVars>>

NextEmit == EmitGlobalDeclaration \/ EmitFunctionDefinition \/ VerifyModule

SpecEmit == InitEmit /\ [][NextEmit]_vars


\* ------------------------------------------------------------------------
\*                 the control-flow graph of the emitted IR
\* ------------------------------------------------------------------------
\* the edges <<from, to, label>> that the branch instructions of the module
\* make: "br" for an unconditional branch, "true" and "false" for the two
\* successors of a conditional branch
Edges ==
    UNION { UNION { LET i == ir.blocks[b].instrs[k] IN
                    IF i.op = "br" THEN {<<b, i.targets[1], "br">>}
                    ELSE IF i.op = "condbr"
                    THEN {<<b, i.targets[1], "true">>, <<b, i.targets[2], "false">>}
                    ELSE {} : k \in 1..Len(ir.blocks[b].instrs) } :
            b \in 1..Len(ir.blocks) }

\* the blocks reachable from the blocks in seen along the edges E
RECURSIVE ReachableFrom(_, _)
ReachableFrom(seen, E) ==
    LET more == { e[2] : e \in { d \in E : d[1] \in seen } } IN
    IF more \subseteq seen THEN seen ELSE ReachableFrom(seen \cup more, E)

\* the entry block of the function that owns block b
EntryOf(b) ==
    CHOOSE e \in 1..Len(ir.blocks) :
        /\ ir.blocks[e].fn = ir.blocks[b].fn
        /\ \A c \in 1..Len(ir.blocks) : ir.blocks[c].fn = ir.blocks[b].fn => e <= c

LogEntries(ev) == { k \in 1..Len(ir.log) : ir.log[k].ev = ev }

\* the edge that leads into the right block of a logical expression
ShortCircuitEdge(e) ==
    <<e.cond_block, e.right, IF e.is_and THEN "true" ELSE "false">>

\* C4: for every && (||) emitted, the conditional branch on the left value
\* has the right block as its true (false) successor, and without that edge
\* neither the right block nor any block made while the right operand was
\* emitted can be reached from the function's entry block
C4_RightOperandBehindShortCircuitEdge ==
    \A k \in LogEntries("logical") :
        LET e == ir.log[k] IN
            /\ ShortCircuitEdge(e) \in Edges
            /\ e.region \cap ReachableFrom({EntryOf(e.right)},
                                           Edges \ {ShortCircuitEdge(e)}) = {}

C4_Witness ==
    /\ emit_pc = "done"
    /\ \E k1, k2 \in LogEntries("logical") :
           /\ ir.log[k1].is_and /\ ~ir.log[k2].is_and
           /\ ir.log[k1].right \in ir.log[k2].region
           /\ \A k \in {k1, k2} :
                  ir.log[k].region \subseteq ReachableFrom({EntryOf(ir.log[k].right)}, Edges)

\* ---------------- loops: the AST side of the comparison ----------------
\* the function definition whose emission made function number fn
RECURSIVE FunctionAstFrom(_, _)
FunctionAstFrom(fn, i) ==
    IF program_ast[i].expr_type = "EXPR_FUNC_DEF"
    THEN (IF fn = 1 THEN program_ast[i] ELSE FunctionAstFrom(fn - 1, i + 1))
    ELSE FunctionAstFrom(fn, i + 1)

FunctionAst(fn) == FunctionAstFrom(fn, 1)

\* the statement at the given path below a block
RECURSIVE NodeAt(_, _)
NodeAt(block, path) ==
    IF Len(path) = 1 THEN block[path[1]]
    ELSE NodeAt(block[path[1]].block, Tail(path))

IsLoop(node) == node.expr_type \in {"EXPR_FOR", "EXPR_WHILE"}

\* the paths of the loops that enclose the statement at path, outermost first
LoopAncestors(block, path) ==
    { n \in 1..(Len(path) - 1) : IsLoop(NodeAt(block, SubSeq(path, 1, n))) }

\* the innermost loop around the statement at path (<<>> if none)
EnclosingLoop(block, path) ==
    LET A == LoopAncestors(block, path) IN
    IF A = {} THEN <<>>
    ELSE SubSeq(path, 1, CHOOSE n \in A : \A m \in A : m <= n)

\* the log entry written when the emission of the loop at path lp, under
\* way at log position k, completed (0 if it never did)
LoopEntryAfter(k, lp) ==
    LET later == { j \in LogEntries("loop") :
                       j > k /\ ir.log[j].path = lp /\ ir.log[j].fn = ir.log[k].fn } IN
    IF later = {} THEN 0 ELSE CHOOSE j \in later : \A m \in later : j <= m

\* C5: a break or continue whose innermost enclosing loop is a for loop
\* branches to that loop's forend, respectively forcond, block; the only edge
\* into a forinc block is the branch that ends the loop body
C5_ForLoopJumpTargets ==
    /\ \A k \in LogEntries("jump") :
           LET j == ir.log[k]
               body == FunctionAst(j.fn).block
               lp == EnclosingLoop(body, j.path)
               l == LoopEntryAfter(k, lp)
           IN (lp # <<>> /\ NodeAt(body, lp).expr_type = "EXPR_FOR" /\ l # 0) =>
                  /\ j.jump_type = "J_CONTINUE" => j.target = ir.log[l].cond
                  /\ j.jump_type = "J_BREAK" => j.target = ir.log[l].end
                  /\ <<j.from, j.target, "br">> \in Edges
    /\ \A l \in LogEntries("loop") :
           ir.log[l].kind = "for" =>
               { e \in Edges : e[2] = ir.log[l].inc }
                   \subseteq {<<ir.log[l].fall, ir.log[l].inc, "br">>}

\* a for loop inside a loop, each with a break and a continue of its own
C5_Witness ==
    /\ emit_pc = "done"
    /\ \E k1, k2, k3 \in LogEntries("jump") :
           LET body == FunctionAst(ir.log[k1].fn).block
               lp1 == EnclosingLoop(body, ir.log[k1].path)
               lp2 == EnclosingLoop(body, ir.log[k2].path)
               lp3 == EnclosingLoop(body, ir.log[k3].path)
           IN /\ ir.log[k1].fn = ir.log[k2].fn /\ ir.log[k2].fn = ir.log[k3].fn
              /\ lp1 # <<>> /\ lp2 = lp1 /\ lp3 # <<>>
              /\ Len(lp3) < Len(lp1) /\ lp3 = SubSeq(lp1, 1, Len(lp3))
              /\ NodeAt(body, lp1).expr_type = "EXPR_FOR"
              /\ NodeAt(body, lp3).expr_type = "EXPR_FOR"
              /\ ir.log[k1].jump_type = "J_CONTINUE"
              /\ ir.log[k2].jump_type = "J_BREAK"
              /\ LoopEntryAfter(k1, lp1) # 0
              /\ ir.log[LoopEntryAfter(k1, lp1)].fall # 0

\* C7: while a statement inside a loop body is emitted, loop_terminals holds
\* one entry per enclosing loop; a for or while statement leaves the depth of
\* loop_terminals as it found it
C7_LoopStackDepth ==
    /\ \A k \in LogEntries("stmt") :
           LET n == Cardinality(LoopAncestors(FunctionAst(ir.log[k].fn).block, ir.log[k].path))
           IN n >= 1 => ir.log[k].depth = n
    /\ \A l \in LogEntries("loop") : ir.log[l].after = ir.log[l].before

C7_Witness ==
    /\ emit_pc = "done"
    /\ \E k \in LogEntries("stmt") :
           /\ ir.log[k].depth = 2
           /\ Cardinality(LoopAncestors(FunctionAst(ir.log[k].fn).block, ir.log[k].path)) = 2
    /\ \E l1, l2 \in LogEntries("loop") :
           /\ ir.log[l1].early /\ ir.log[l1].before = 1
           /\ ir.log[l2].kind = "for" /\ ir.log[l2].before = 1


\* the statements of a block that generate_block_ir emits: those up to the
\* first return or jump
Emitted(block) ==
    SubSeq(block, 1,
           IF \E i \in 1..Len(block) : block[i].expr_type \in {"EXPR_RETURN", "EXPR_JUMP"}
           THEN CHOOSE i \in 1..Len(block) :
                    /\ block[i].expr_type \in {"EXPR_RETURN", "EXPR_JUMP"}
                    /\ \A j \in 1..(i - 1) : block[j].expr_type \notin {"EXPR_RETURN", "EXPR_JUMP"}
           ELSE Len(block))

\* the history entry with which the emission of the statement at path began,
\* for a statement whose emission ended at entry k
StatementEntry(k, path) ==
    CHOOSE j \in 1..(k - 1) :
        /\ ir.log[j].ev = "stmt" /\ ir.log[j].fn = ir.log[k].fn /\ ir.log[j].path = path
        /\ \A m \in (j + 1)..(k - 1) :
               ~(ir.log[m].ev = "stmt" /\ ir.log[m].fn = ir.log[k].fn /\ ir.log[m].path = path)

\* the entry that marks the start of the else branch of the if statement
\* whose emission ended at entry k
ElseEntry(k) ==
    CHOOSE j \in 1..(k - 1) :
        /\ ir.log[j].ev = "else" /\ ir.log[j].fn = ir.log[k].fn /\ ir.log[j].path = ir.log[k].path
        /\ \A m \in (j + 1)..(k - 1) :
               ~(ir.log[m].ev = "else" /\ ir.log[m].fn = ir.log[k].fn
                     /\ ir.log[m].path = ir.log[k].path)

\* the entries between lo and hi of the statements right below path
ChildEntries(lo, hi, fn, path) ==
    {m \in (lo + 1)..(hi - 1) :
        /\ ir.log[m].ev = "stmt" /\ ir.log[m].fn = fn
        /\ Len(ir.log[m].path) = Len(path) + 1
        /\ SubSeq(ir.log[m].path, 1, Len(path)) = path}

\* the entries K are those of the statements stmts, in their order, the
\* first of them emitted at the start of block b
EmittedInto(K, stmts, b) ==
    /\ Cardinality(K) = Len(stmts)
    /\ \A m \in K : ir.log[m].expr = stmts[Cardinality({n \in K : n <= m})]
    /\ \A m \in K : (\A n \in K : m <= n) => ir.log[m].ip = b

\* C19: for every If node the IR emitted into the then region is that of
\* exactly the then-block statements and the IR emitted into the else region
\* is that of exactly the else_block statements; when else_block is empty the
\* else basic block holds nothing but the unconditional branch to ifend.
C19_IfBranches ==
    \A k \in LogEntries("if") :
        LET e == ir.log[k]
            node == NodeAt(FunctionAst(e.fn).block, e.path)
        IN /\ EmittedInto(ChildEntries(StatementEntry(k, e.path), ElseEntry(k), e.fn, e.path),
                          Emitted(node.block), e.then)
           /\ EmittedInto(ChildEntries(ElseEntry(k), k, e.fn, e.path),
                          Emitted(node.else_block), e.else)
           /\ node.else_block = <<>>
                  => /\ Len(ir.blocks[e.else].instrs) = 1
                     /\ ir.blocks[e.else].instrs[1].op = "br"
                     /\ ir.blocks[e.else].instrs[1].targets = <<e.ifend>>

\* the break, continue and return statements emitted: the block that holds
\* the terminator, the terminator, and the insertion point the statement left
Terminators ==
    {[from |-> ir.log[k].from, id |-> ir.log[k].nv + 1, ip |-> ir.log[k + 1].ip] :
        k \in {j \in LogEntries("jump") : j < Len(ir.log) /\ ir.log[j + 1].ev = "jumpend"}}
    \cup {[from |-> ir.log[k].from, id |-> ir.log[k].nv, ip |-> ir.log[k].ip] :
             k \in LogEntries("returnend")}

\* block b had no instruction and no predecessor when it became the
\* insertion point, and has got no predecessor since
FreshBlock(b, from) ==
    /\ b # from
    /\ \A e \in Edges : e[2] # b

\* the instruction with the given id is the last one of block b
EndsBlock(id, b) ==
    /\ ir.blocks[b].instrs # <<>>
    /\ ir.blocks[b].instrs[Len(ir.blocks[b].instrs)].id = id

\* C20: after a break, a continue or a return has been emitted the builder's
\* insertion point is a fresh basic block with no predecessors, so that no
\* instruction emitted afterwards is appended after the terminator in the
\* block that holds the break, continue or return.
C20_FreshBlockAfterTerminator ==
    \A t \in Terminators :
        /\ FreshBlock(t.ip, t.from)
        /\ EndsBlock(t.id, t.from)

\* the statements of the history that are a break or a continue
JumpStatements ==
    {k \in LogEntries("stmt") :
        NodeAt(FunctionAst(ir.log[k].fn).block, ir.log[k].path).expr_type = "EXPR_JUMP"}

\* the instructions that block b holds
InstructionsOf(b) == {ir.blocks[b].instrs[i] : i \in 1..Len(ir.blocks[b].instrs)}

\* C14: a break or continue emitted while loop_terminals is empty ends with
\* the IR error for break/continue outside a loop and emits no branch; with a
\* non-empty stack it emits one unconditional branch to the target of the
\* entry on top of the stack (break to loop_end, continue to loop_condition)
\* and leaves the stack unchanged.
C14_JumpNeedsLoop ==
    /\ \A k \in JumpStatements :
           ir.log[k].depth = 0
               => /\ ir.err = "'break'/'continue' cannot be used outside a loop."
                  /\ k = Len(ir.log)
                  /\ ir.nv = ir.log[k].nv
                  /\ ir.loop_terminals = <<>>
    /\ \A k \in LogEntries("jump") :
           LET j == ir.log[k] IN
           /\ j.stack # <<>>
           /\ j.target = IF j.jump_type = "J_BREAK" THEN j.stack[Len(j.stack)].loop_end
                                                    ELSE j.stack[Len(j.stack)].loop_condition
           /\ k < Len(ir.log)
           /\ ir.log[k + 1].ev = "jumpend"
           /\ ir.log[k + 1].stack = j.stack
           /\ ir.log[k + 1].nv = j.nv + 1
           /\ Instr(j.nv + 1, "br", "void", <<>>, <<j.target>>) \in InstructionsOf(j.from)

\* a break and a continue in a loop inside a loop, whose targets are not
\* those of the outer loop
C14_Witness ==
    /\ emit_pc = "done"
    /\ \E k1, k2 \in LogEntries("jump") :
           /\ ir.log[k1].jump_type = "J_BREAK"
           /\ ir.log[k2].jump_type = "J_CONTINUE"
           /\ Len(ir.log[k1].stack) = 2
           /\ Len(ir.log[k2].stack) = 2
           /\ ir.log[k1].target # ir.log[k1].stack[1].loop_end
           /\ ir.log[k2].target # ir.log[k2].stack[1].loop_condition



\* an expression of literals and arithmetic on them
RECURSIVE IsConstantExpression(_)
IsConstantExpression(expr) ==
    \/ expr.expr_type = "EXPR_LITERAL"
    \/ /\ expr.expr_type = "EXPR_BINARY"
       /\ expr.op = TOKEN_PLUS
       /\ IsConstantExpression(expr.left)
       /\ IsConstantExpression(expr.right)

\* the global of declaration decl is the last one of module m, with the
\* initialiser init, and llvm_symbol_table holds it
GlobalDefined(m, decl, init) ==
    /\ m.err = ""
    /\ m.globals # <<>>
    /\ m.globals[Len(m.globals)] = [name |-> decl.variable_name,
                                    type |-> llvm_type_map(decl.data_type),
                                    init |-> init, is_constant |-> FALSE]
    /\ smap_lookup(m.symtab, decl.variable_name)
           = LLVM_Symbol_Info(GlobalVal(decl.variable_name), llvm_type_map(decl.data_type))

\* what C15 states of the module m that the top-level expression expr makes
\* of the module before
GlobalDeclared(expr, before, m) ==
    IF expr.expr_type = "EXPR_DECL"
    THEN /\ GlobalDefined(m, expr, ConstVal(llvm_type_map(expr.data_type), 0))
         /\ Len(m.globals) = Len(before.globals) + 1
    ELSE IF expr.expr_type = "EXPR_BINARY" /\ expr.op = TOKEN_ASSIGN
            /\ IsConstantExpression(expr.right)
    THEN /\ GlobalDefined(m, expr.left, m.globals[Len(m.globals)].init)
         /\ m.globals[Len(m.globals)].init.kind = "const"
         /\ expr.right.expr_type = "EXPR_LITERAL" /\ expr.right.type # "T_STRING"
                => /\ m.globals[Len(m.globals)].init
                          = ConstVal(llvm_type_map(expr.right.type), expr.right.value)
                   /\ Len(m.globals) = Len(before.globals) + 1
    ELSE /\ m.err # ""
         /\ m.globals = before.globals
         /\ m.symtab = before.symtab

\* C15: for a top-level node that is not a function definition, a bare
\* Declaration makes a zero-initialised global entered in llvm_symbol_table;
\* a Binary = whose right-hand side evaluates to a constant makes a global
\* initialised with that constant; a Binary = whose right-hand side is not a
\* constant, a Binary with another operator and any other node end with a
\* fatal error and define no global.
C15_GlobalDeclarations ==
    [][(emit_pc = "run" /\ emit_index <= Len(program_ast)
           /\ program_ast[emit_index].expr_type # "EXPR_FUNC_DEF")
          => /\ GlobalDeclared(program_ast[emit_index], ir, ir')
             /\ emit_pc' = IF ir'.err # "" THEN "error" ELSE "run"]_vars

\* a zero-initialised global followed by one initialised with a constant
C15_Witness ==
    /\ emit_pc = "done"
    /\ Len(program_ast) = 2
    /\ program_ast[1].expr_type = "EXPR_DECL"
    /\ program_ast[2].expr_type = "EXPR_BINARY"
    /\ Len(ir.globals) = 2
    /\ ir.globals[1].init = ConstVal("i32", 0)
    /\ ir.globals[2].init = ConstVal("i32", 1)
    /\ smap_lookup(ir.symtab, "g") # NULL_VALUE
    /\ smap_lookup(ir.symtab, "h") # NULL_VALUE


\* ------------------------------------------------------------------------
\*                 the lexer (lexer.cpp, lexer.h)
\* ------------------------------------------------------------------------
\* A line is a sequence of characters, a character a string of length one.
\* In generate_tokens the line being read is L = [line, beyond, line_num,
\* file_name]: lexer->line, the bytes that lie behind the terminator of
\* lexer->line in memory, lexer->line_num and lexer->file_name. Its locals
\* are the record lx:
\*   tokens     lexer->tokens
\*   pos, curr, ptok, encountered_comment
\*   reading    currently_reading_token
\*   inside     inside_multiline_comment
\*   brk        a break has left the while loop
\*   import     the file named by an #import directive ("" when none)
\*   err        the message of throw_error ("" while running)
\* A loop is a recursive operator; the state of its next turn is bound to
\* its value (n \in {...}) before the turn is taken.

\* '\0'
NUL == ""

TAB == "\t"

SPACE == " "

DOUBLE_QUOTE == "\""

SINGLE_QUOTE == "'"

KEYWORDS == {"if", "else", "for", "while", "return", "break", "continue"}

DATA_TYPES == {"void", "bool", "int", "float", "char", "string"}

is_alpha(c) ==
    c \in {"a", "b", "c", "d", "e", "f", "g", "h", "i", "j", "k", "l", "m",
           "n", "o", "p", "q", "r", "s", "t", "u", "v", "w", "x", "y", "z",
           "A", "B", "C", "D", "E", "F", "G", "H", "I", "J", "K", "L", "M",
           "N", "O", "P", "Q", "R", "S", "T", "U", "V", "W", "X", "Y", "Z"}

is_numeric(c) == c \in {"0", "1", "2", "3", "4", "5", "6", "7", "8", "9"}

\* struct Token
Token(val, type, line_num, position, file_name) ==
    [val |-> val, type |-> type, line_num |-> line_num, position |-> position,
     file_name |-> file_name]

\* lexer->line[pos]: a character of the line, the terminator at pos = size,
\* and behind it whatever bytes the memory holds (a read of them is undefined
\* behaviour); the bytes are followed by a zero
line_at(L, pos) ==
    IF pos < Len(L.line) THEN L.line[pos + 1]
    ELSE IF pos = Len(L.line) THEN NUL
    ELSE IF pos - Len(L.line) <= Len(L.beyond) THEN L.beyond[pos - Len(L.line)]
    ELSE NUL

throw_error(lx, message) == [lx EXCEPT !.err = message]

\* lexer->tokens.push_back(Token{val, type, lexer->line_num, pos, lexer->file_name})
push_token(L, lx, val, type) ==
    [lx EXCEPT !.tokens = Append(@, Token(val, type, L.line_num, lx.pos, L.file_name))]

\* pos++
advance(lx) == [lx EXCEPT !.pos = @ + 1]

make_token_as_per_ptok(L, lx) ==
    push_token(L, lx, lx.curr,
               IF lx.ptok = "PTOK_NUMERIC" THEN TOKEN_NUMERIC_LITERAL
               ELSE IF lx.curr \in {"true", "false"} THEN TOKEN_BOOL_LITERAL
               ELSE IF lx.curr \in KEYWORDS THEN TOKEN_KEYWORD
               ELSE IF lx.curr \in DATA_TYPES THEN TOKEN_DATA_TYPE
               ELSE TOKEN_IDENTIFIER)

\* the while loops that skip whitespace (lexer.cpp:81-85, 209-213)
RECURSIVE skip_whitespace(_, _)
skip_whitespace(L, pos) ==
    IF line_at(L, pos) \in {SPACE, TAB}
    THEN CHOOSE r \in {skip_whitespace(L, n) : n \in {pos + 1}} : TRUE
    ELSE pos

\* the loop that reads the import file path up to the closing quote
RECURSIVE read_import_file_name(_, _, _)
read_import_file_name(L, pos, import_file_name) ==
    IF line_at(L, pos) = NUL
    THEN [is_valid_string |-> FALSE, import_file_name |-> import_file_name]
    ELSE IF line_at(L, pos) = DOUBLE_QUOTE
    THEN [is_valid_string |-> TRUE, import_file_name |-> import_file_name]
    ELSE CHOOSE r \in {read_import_file_name(L, n, name) :
                         n \in {pos + 1}, name \in {import_file_name \o line_at(L, pos)}} : TRUE

\* handle_preprocessor_directive from `if (!is_valid_string)` up to the call
\* of perform_lexical_analysis, which the record returned asks for; the break
\* of generate_tokens follows the call
handle_preprocessor_directive__import(lx, path) ==
    IF ~path.is_valid_string
    THEN throw_error(lx, "SYNTAX ERROR: Invalid string provided for import file path.")
    ELSE [lx EXCEPT !.import = path.import_file_name, !.brk = TRUE]

\* handle_preprocessor_directive after the whitespace was skipped
handle_preprocessor_directive__path(L, lx, pos) ==
    IF line_at(L, pos) # DOUBLE_QUOTE
    THEN throw_error(lx, "SYNTAX ERROR: import file path not specified.")
    ELSE handle_preprocessor_directive__import(lx, read_import_file_name(L, pos + 1, ""))

handle_preprocessor_directive(L, lx, preprocessor_directive_name, pos) ==
    IF preprocessor_directive_name = "import"
    THEN handle_preprocessor_directive__path(L, lx, skip_whitespace(L, pos))
    ELSE throw_error(lx, "SYNTAX ERROR: Invalid preprocessor directive encountered.")

\* the loop that reads the name of the directive; the call of
\* handle_preprocessor_directive follows it
RECURSIVE read_directive(_, _, _)
read_directive(L, lx, preprocessor_directive_name) ==
    IF line_at(L, lx.pos) \notin {NUL, SPACE, TAB}
    THEN CHOOSE r \in {read_directive(L, n, name) :
                         n \in {advance(lx)},
                         name \in {preprocessor_directive_name \o line_at(L, lx.pos)}} : TRUE
    ELSE handle_preprocessor_directive(L, lx, preprocessor_directive_name, lx.pos)

\* the loop that reads a multi-line comment up to its end (lexer.cpp:195-205)
RECURSIVE read_multiline_comment(_, _)
read_multiline_comment(L, lx) ==
    IF line_at(L, lx.pos) = NUL THEN lx
    ELSE IF line_at(L, lx.pos) = "*"
    THEN IF line_at(L, lx.pos + 1) = "/"
         THEN [lx EXCEPT !.inside = FALSE, !.pos = @ + 2]
         ELSE CHOOSE r \in {read_multiline_comment(L, n) : n \in {[lx EXCEPT !.pos = @ + 2]}} : TRUE
    ELSE CHOOSE r \in {read_multiline_comment(L, n) : n \in {advance(lx)}} : TRUE

\* the Token_Type of the lexeme of a symbol
symbol_type(lexeme) ==
    CASE lexeme = "{" -> TOKEN_LEFT_BRACE
      [] lexeme = "}" -> TOKEN_RIGHT_BRACE
      [] lexeme = "(" -> TOKEN_LEFT_PAREN
      [] lexeme = ")" -> TOKEN_RIGHT_PAREN
      [] lexeme = "[" -> TOKEN_LEFT_SQUARE
      [] lexeme = "]" -> TOKEN_RIGHT_SQUARE
      [] lexeme = "~" -> TOKEN_BIT_NOT
      [] lexeme = "." -> TOKEN_DOT
      [] lexeme = "," -> TOKEN_SEPARATOR
      [] lexeme = ";" -> TOKEN_DELIMITER
      [] lexeme = "!" -> TOKEN_NOT
      [] lexeme = "!=" -> TOKEN_NOTEQ
      [] lexeme = "+" -> TOKEN_PLUS
      [] lexeme = "+=" -> TOKEN_PLUSEQ
      [] lexeme = "++" -> TOKEN_INCREMENT
      [] lexeme = "-" -> TOKEN_MINUS
      [] lexeme = "-=" -> TOKEN_MINUSEQ
      [] lexeme = "--" -> TOKEN_DECREMENT
      [] lexeme = "*" -> TOKEN_STAR
      [] lexeme = "*=" -> TOKEN_MULTIPLYEQ
      [] lexeme = "/" -> TOKEN_DIVIDE
      [] lexeme = "/=" -> TOKEN_DIVIDEEQ
      [] lexeme = "%" -> TOKEN_MOD
      [] lexeme = "%=" -> TOKEN_MODEQ
      [] lexeme = "<" -> TOKEN_LESS
      [] lexeme = "<=" -> TOKEN_LESSEQ
      [] lexeme = "<<" -> TOKEN_LSHIFT
      [] lexeme = "<<=" -> TOKEN_LSHIFT_EQ
      [] lexeme = ">" -> TOKEN_GREATER
      [] lexeme = ">=" -> TOKEN_GREATEREQ
      [] lexeme = ">>" -> TOKEN_RSHIFT
      [] lexeme = ">>=" -> TOKEN_RSHIFT_EQ
      [] lexeme = "=" -> TOKEN_ASSIGN
      [] lexeme = "==" -> TOKEN_EQUAL
      [] lexeme = "&" -> TOKEN_AMPERSAND
      [] lexeme = "&=" -> TOKEN_BIT_ANDEQ
      [] lexeme = "&&" -> TOKEN_AND
      [] lexeme = "&&=" -> TOKEN_ANDEQ
      [] lexeme = "|" -> TOKEN_BIT_OR
      [] lexeme = "|=" -> TOKEN_BIT_OREQ
      [] lexeme = "||" -> TOKEN_OR
      [] lexeme = "||=" -> TOKEN_OREQ
      [] lexeme = "^" -> TOKEN_XOR
      [] lexeme = "^=" -> TOKEN_XOREQ

\* the cases of the switch that make a token of the character alone
SingleSymbols == {"{", "}", "(", ")", "[", "]", "~", ".", ",", ";"}

\* the cases that look at the next character
CompoundSymbols == {"!", "+", "-", "*", "/", "%", "<", ">", "=", "&", "|", "^"}

\* case '\'' (lexer.cpp:328-346); lx.pos is at the opening quote
char_literal(L, lx) ==
    IF line_at(L, lx.pos + 1) \in {NUL, TAB}
    THEN throw_error(advance(lx), "SYNTAX ERROR: Invalid character literal")
    ELSE IF line_at(L, lx.pos + 2) # SINGLE_QUOTE
    THEN throw_error(advance(push_token(L, advance(lx), line_at(L, lx.pos + 1),
                                        TOKEN_CHAR_LITERAL)),
                     "SYNTAX ERROR: Invalid character literal. Closing quote not found.")
    ELSE advance(advance(push_token(L, advance(lx), line_at(L, lx.pos + 1),
                                    TOKEN_CHAR_LITERAL)))

\* case '\"' (lexer.cpp:347-373) from the while loop on; lx.pos is at
\* literal_char
RECURSIVE string_literal(_, _, _)
string_literal(L, lx, literal) ==
    IF line_at(L, lx.pos) = NUL
    THEN throw_error(lx, "SYNTAX ERROR: Invalid string literal. Closing quote not found.")
    ELSE IF line_at(L, lx.pos) = DOUBLE_QUOTE
    THEN advance(push_token(L, lx, literal, TOKEN_STRING_LITERAL))
    ELSE IF line_at(L, lx.pos) = TAB
    THEN throw_error(lx, "SYNTAX ERROR: Invalid character '\\t' in string literal")
    ELSE CHOOSE r \in {string_literal(L, n, lit) :
                         n \in {advance(lx)}, lit \in {literal \o line_at(L, lx.pos)}} : TRUE

\* the cases '<', '>', '&' and '|' after the second c; lx.pos is at next
double_symbol(L, lx, c, next) ==
    IF next = "="
    THEN advance(push_token(L, lx, c \o c \o "=", symbol_type(c \o c \o "=")))
    ELSE push_token(L, lx, c \o c, symbol_type(c \o c))

\* the cases that look at the next character; lx.pos is at next
compound_symbol(L, lx, c, next) ==
    IF next = "=" THEN advance(push_token(L, lx, c \o "=", symbol_type(c \o "=")))
    ELSE IF c \in {"+", "-"} /\ next = c
    THEN advance(push_token(L, lx, c \o c, symbol_type(c \o c)))
    ELSE IF c = "/" /\ next = "/" THEN [lx EXCEPT !.encountered_comment = TRUE]
    ELSE IF c = "/" /\ next = "*" THEN [lx EXCEPT !.inside = TRUE, !.pos = @ + 1]
    ELSE IF c \in {"<", ">", "&", "|"} /\ next = c
    THEN double_symbol(L, advance(lx), c, line_at(L, lx.pos + 1))
    ELSE push_token(L, lx, c, symbol_type(c))

\* switch (c) (lexer.cpp:295-612)
handle_symbol(L, lx, c) ==
    IF c \in SingleSymbols THEN advance(push_token(L, lx, c, symbol_type(c)))
    ELSE IF c = SINGLE_QUOTE THEN char_literal(L, lx)
    ELSE IF c = DOUBLE_QUOTE THEN string_literal(L, advance(lx), "")
    ELSE IF c \in CompoundSymbols THEN compound_symbol(L, advance(lx), c, line_at(L, lx.pos + 1))
    ELSE throw_error(lx, "SYNTAX ERROR: Invalid token encountered.")

\* if (curr != "") { make_token_as_per_ptok(...); curr.clear(); }
flush_curr(L, lx) ==
    IF lx.curr # "" THEN [make_token_as_per_ptok(L, lx) EXCEPT !.curr = ""] ELSE lx

\* the body of the while loop for a character c that is being read as part
\* of a token (lexer.cpp:219-614)
read_char(L, lx, c) ==
    IF c = "#" THEN [read_directive(L, advance(lx), "") EXCEPT !.brk = TRUE]
    ELSE IF lx.curr # "" /\ c \in {NUL, SPACE, TAB}
    THEN [make_token_as_per_ptok(L, lx) EXCEPT !.curr = "", !.pos = @ + 1,
                                               !.reading = FALSE, !.brk = (c = NUL)]
    ELSE IF c = "." /\ lx.curr # "" /\ lx.ptok = "PTOK_NUMERIC"
    THEN [lx EXCEPT !.curr = @ \o c, !.pos = @ + 1]
    ELSE IF is_numeric(c)
    THEN [lx EXCEPT !.ptok = IF lx.curr = "" THEN "PTOK_NUMERIC" ELSE @,
                    !.curr = @ \o c, !.pos = @ + 1]
    ELSE IF is_alpha(c) \/ c = "_"
    THEN IF lx.curr # "" /\ lx.ptok = "PTOK_NUMERIC"
         THEN throw_error(lx, "SYNTAX ERROR: Invalid token. Identifiers cannot start with numeric characters.")
         ELSE [lx EXCEPT !.curr = @ \o c, !.ptok = "PTOK_ALNUM", !.pos = @ + 1]
    ELSE [handle_symbol(L, flush_curr(L, lx), c) EXCEPT !.reading = FALSE]

\* one turn of the while loop of generate_tokens
generate_tokens__turn(L, lx) ==
    IF ~lx.reading
    THEN [(IF lx.inside THEN read_multiline_comment(L, lx) ELSE lx)
              EXCEPT !.pos = skip_whitespace(L, @), !.reading = TRUE]
    ELSE read_char(L, lx, line_at(L, lx.pos))

\* while (lexer->line[pos] && !encountered_comment)
RECURSIVE generate_tokens__loop(_, _)
generate_tokens__loop(L, lx) ==
    IF lx.err # "" \/ lx.brk \/ line_at(L, lx.pos) = NUL \/ lx.encountered_comment THEN lx
    ELSE CHOOSE r \in {generate_tokens__loop(L, n) : n \in {generate_tokens__turn(L, lx)}} : TRUE

\* generate_tokens(lexer, inside_multiline_comment) on the line L; the record
\* returned holds lexer->tokens in tokens and the value returned in inside
generate_tokens(L, lexer_tokens, inside_multiline_comment) ==
    generate_tokens__loop(L, [tokens |-> lexer_tokens, pos |-> 0, curr |-> "", ptok |-> "none",
                              reading |-> FALSE, encountered_comment |-> FALSE,
                              inside |-> inside_multiline_comment, brk |-> FALSE,
                              import |-> "", err |-> ""])

\* a read of lexer->line[pos] behind the terminator took place
reads_beyond(L, lx) == lx.pos > Len(L.line)

\* ------------------------------------------------------------------------
\*            perform_lexical_analysis: inputs and specification
\* ------------------------------------------------------------------------
\* lexers is the stack of the activations of perform_lexical_analysis, the
\* innermost last; each holds its Lexer object and its local
\* inside_multiline_comment. An activation waits in
\* handle_preprocessor_directive while the one above it lexes the file it
\* imports.

\* auto *lexer = new Lexer, with file_name set (lexer.cpp:623-632)
NewLexer(file_name) ==
    [file_name |-> file_name, line_num |-> 0, total_lines_postprocessing |-> 0,
     tokens |-> <<>>, inside_multiline_comment |-> FALSE]

\* file.is_open()
is_open(file_name) == file_name \in DOMAIN files

\* lexer->tokens.insert(lexer->tokens.end(), import_lexer->tokens ...)
insert_import_tokens_AtBegin(lexer_tokens, import_tokens) == import_tokens \o lexer_tokens

insert_import_tokens(lexer_tokens, import_tokens) == lexer_tokens \o import_tokens

\* the longest import chain the model follows
MaxImportDepth == 5

\* the bytes that may lie behind the terminator of lexer->line
GarbageChars == {"*", "/", ";"}

\* the number of bytes behind the terminator that are not zero
MaxGarbage == 3

GarbageBytes == UNION {[1..n -> GarbageChars] : n \in 0..MaxGarbage}

\* the activation that is running
CurrentLexer == lexers[Len(lexers)]

\* std::getline(file, lexer->line) has a line to read
HasLine == CurrentLexer.line_num < Len(files[CurrentLexer.file_name])

\* the line that std::getline reads, with the bytes that lie behind it
ReadLine(beyond) ==
    [line |-> files[CurrentLexer.file_name][CurrentLexer.line_num + 1],
     beyond |-> beyond,
     line_num |-> CurrentLexer.line_num + 1,
     file_name |-> CurrentLexer.file_name]

\* generate_tokens on the line that std::getline reads
LexedLine(beyond) ==
    generate_tokens(ReadLine(beyond), CurrentLexer.tokens,
                    CurrentLexer.inside_multiline_comment)

\* the contents the bytes behind the line can have: they matter only when
\* generate_tokens reads them
BytesBeyond ==
    IF reads_beyond(ReadLine(<<>>), LexedLine(<<>>)) THEN GarbageBytes ELSE {<<>>}

\* the activation after generate_tokens has returned lx for its next line
AfterLine(lexer, lx) ==
    [lexer EXCEPT !.line_num = @ + 1, !.tokens = lx.tokens,
                  !.inside_multiline_comment = lx.inside]

\* one turn of the loop of perform_lexical_analysis on a line without a
\* directive that imports
LexLine ==
    /\ lex_pc = "run"
    /\ HasLine
    /\ \E beyond \in BytesBeyond :
       \E lx \in {LexedLine(beyond)} :
          /\ lx.import = ""
          /\ lexers' = [lexers EXCEPT ![Len(lexers)] = AfterLine(@, lx)]
          /\ lex_pc' = IF lx.err # "" THEN "error" ELSE "run"
    /\ UNCHANGED <<files, notLexVars>>

\* a turn on a line with #import, up to the call of perform_lexical_analysis
\* and into it: the file is opened and becomes the one that is read
LexImport_Once ==
    /\ lex_pc = "run"
    /\ HasLine
    /\ Len(lexers) < MaxImportDepth
    /\ \E beyond \in BytesBeyond :
       \E lx \in {LexedLine(beyond)} :
          /\ lx.import # ""
          /\ lx.err = ""
          /\ IF \E i \in 1..Len(lexers) : lexers[i].file_name = lx.import
             THEN /\ lexers' = [lexers EXCEPT ![Len(lexers)] = AfterLine(@, lx)]
                  /\ lex_pc' = "run"
             ELSE IF is_open(lx.import)
             THEN /\ lexers' = Append([lexers EXCEPT ![Len(lexers)] = AfterLine(@, lx)],
                                      NewLexer(lx.import))
                  /\ lex_pc' = "run"
             ELSE /\ lexers' = [lexers EXCEPT ![Len(lexers)] = AfterLine(@, lx)]
                  /\ lex_pc' = "error"
    /\ UNCHANGED <<files, notLexVars>>

LexImport ==
    /\ lex_pc = "run"
    /\ HasLine
    /\ Len(lexers) < MaxImportDepth
    /\ \E beyond \in BytesBeyond :
       \E lx \in {LexedLine(beyond)} :
          /\ lx.import # ""
          /\ lx.err = ""
          /\ IF is_open(lx.import)
             THEN /\ lexers' = Append([lexers EXCEPT ![Len(lexers)] = AfterLine(@, lx)],
                                      NewLexer(lx.import))
                  /\ lex_pc' = "run"
             ELSE /\ lexers' = [lexers EXCEPT ![Len(lexers)] = AfterLine(@, lx)]
                  /\ lex_pc' = "error"
    /\ UNCHANGED <<files, notLexVars>>

\* the import lexer after the end of its file (lexer.cpp:638)
AtEndOfFile(lexer) ==
    [lexer EXCEPT !.total_lines_postprocessing = @ + lexer.line_num]

\* the importing lexer after handle_preprocessor_directive has taken the
\* tokens of import_lexer (lexer.cpp:131-137)
AfterImport(lexer, import_lexer) ==
    [lexer EXCEPT !.tokens = insert_import_tokens(@, import_lexer.tokens),
                  !.total_lines_postprocessing = @ + import_lexer.total_lines_postprocessing]

\* the end of an imported file: perform_lexical_analysis returns to
\* handle_preprocessor_directive, which returns to generate_tokens, which
\* leaves its loop
LexReturn ==
    /\ lex_pc = "run"
    /\ ~HasLine
    /\ Len(lexers) > 1
    /\ lexers' = [SubSeq(lexers, 1, Len(lexers) - 1) EXCEPT
                     ![Len(lexers) - 1] = AfterImport(@, AtEndOfFile(CurrentLexer))]
    /\ UNCHANGED <<lex_pc, files, notLexVars>>

\* the end of the file handed to the compiler
LexDone ==
    /\ lex_pc = "run"
    /\ ~HasLine
    /\ Len(lexers) = 1
    /\ lexers' = <<AtEndOfFile(CurrentLexer)>>
    /\ lex_pc' = "done"
    /\ UNCHANGED <<files, notLexVars>>

NextLex == LexLine \/ LexImport \/ LexReturn \/ LexDone

\* the file handed to the compiler
RootFile == "a.em"

\* ---- files with comments: one file, no directive
CommentChars == {"*", "/", ";"}

MaxLineLen == 6

\* every line of at most MaxLineLen characters, and lines with identifiers
\* around a comment
CommentLines ==
    UNION {[1..n -> CommentChars] : n \in 1..MaxLineLen}
        \cup {<<"a", "/", "*", "*", "/", "a", ";">>,
              <<"a", "/", "*", "a", "*", "*", "/", "a", ";">>,
              <<"/", "*", " ", "a", " ", "*", "/", " ", "a", " ", ";">>,
              <<"/", "/", " ", "/", "*">>}

\* lines that open a comment, lie within it, and close it
OpeningLines == {<<"a", " ", "/", "*">>, <<"/", "*", " ", "a">>, <<"/", "*">>}

InnerLines == UNION {[1..n -> {"a", "*", "/"}] : n \in 0..2}

ClosingLines ==
    {<<"*", "/", " ", ";">>, <<"a", "*", "/", ";">>, <<"*", "*", "/", ";">>, <<";">>}

CommentFiles ==
    {<<l>> : l \in CommentLines}
        \cup {<<o, i, c>> : o \in OpeningLines, i \in InnerLines, c \in ClosingLines}

\* ---- files with imports: a.em, b.em and c.em exist, m.em does not
PathChars ==
    "a.em" :> <<"a", ".", "e", "m">> @@ "b.em" :> <<"b", ".", "e", "m">>
        @@ "c.em" :> <<"c", ".", "e", "m">> @@ "m.em" :> <<"m", ".", "e", "m">>

\* the identifier that the lines of a file use
IdentOf == "a.em" :> "x" @@ "b.em" :> "y" @@ "c.em" :> "z"

TokenLine(f) == <<IdentOf[f], " ", ";">>

\* the text of the directive that imports p
ImportDirective(p) ==
    <<"#", "i", "m", "p", "o", "r", "t", " ", "\"">> \o PathChars[p] \o <<"\"">>

\* a directive with a token before it and, behind it, text that opens a comment
WrappedImport(f, p) ==
    <<IdentOf[f], " ">> \o ImportDirective(p) \o <<" ", IdentOf[f], " ", ";", " ", "/", "*">>

\* a directive that follows an identifier at once
GluedImport(f, p) == <<IdentOf[f]>> \o ImportDirective(p)

MaxFileLines == 2

LinesOfA ==
    {TokenLine("a.em"), ImportDirective("a.em"), ImportDirective("b.em"),
     ImportDirective("m.em"), WrappedImport("a.em", "b.em"), GluedImport("a.em", "b.em")}

\* the contents of a.em: at most MaxFileLines lines
FilesOfA == UNION {[1..k -> LinesOfA] : k \in 0..MaxFileLines}

FilesOfB ==
    {<<TokenLine("b.em")>>, <<ImportDirective("a.em")>>,
     <<TokenLine("b.em"), ImportDirective("c.em")>>,
     <<WrappedImport("b.em", "c.em"), TokenLine("b.em")>>,
     <<TokenLine("b.em"), ImportDirective("a.em")>>}

FilesOfC == {<<TokenLine("c.em")>>, <<ImportDirective("a.em")>>}

\* ---- files with numeric literals: one line of digits and dots, closed by ;
LiteralChars == {"1", "."}

MaxLiteralLen == 5

NumericLines ==
    {l \o <<";">> : l \in UNION {[1..n -> LiteralChars] : n \in 1..MaxLiteralLen}}
        \cup {<<"1", ".", "2", ".", "3", ";">>,
              <<"x", " ", "1", ".", "2", ".", "3", " ", ";">>}

NumericFiles == {<<l>> : l \in NumericLines}

\* ---- files with runs of digits, letters and underscores: one run, what
\* ends it, and at most one line behind it
RunWords ==
    {<<"x">>, <<"1", "2">>, <<"i", "f">>, <<"i", "n", "t">>, <<"t", "r", "u", "e">>,
     <<"x", "_", "1">>}

\* the end of the line, whitespace, a symbol, a bracket, a quote; the last
\* two leave a second run at the end of the line
RunEnders ==
    {<<>>, <<" ">>, <<"\t">>, <<";">>, <<"(">>, <<"[">>, <<"\"", "+", "\"">>, <<"'", "+", "'">>,
     <<" ", "y">>, <<"+", "y">>}

RunLines ==
    {p \o w \o e : p \in {<<>>, <<";", " ">>}, w \in RunWords, e \in RunEnders}

RunFiles ==
    {<<l>> : l \in RunLines} \cup {<<w, <<";">>>> : w \in RunWords}

FileSystems ==
    {RootFile :> f : f \in CommentFiles \cup NumericFiles \cup RunFiles}
        \cup {"a.em" :> a @@ "b.em" :> b @@ "c.em" :> c :
                 a \in FilesOfA, b \in FilesOfB, c \in FilesOfC}

InitLex ==
    /\ files \in FileSystems
    /\ lexers = <<NewLexer(RootFile)>>
    /\ lex_pc = "run"
    /\ ParserIdle
    /\ SymIdle
    /\ EmitIdle
    /\ DriverIdle
    /\ SmapIdle

SpecLex == InitLex /\ [][NextLex]_vars

\* the compiler is a sequential program that keeps running: a step that can
\* be taken is taken
SpecLexFair == InitLex /\ [][NextLex]_vars /\ WF_vars(NextLex)

\* ------------------------------------------------------------------------
\*                       properties of the lexer
\* ------------------------------------------------------------------------
\* the tokens of a text that has no directive: generate_tokens line by line
RECURSIVE LexTextFrom(_, _, _, _)
LexTextFrom(file_name, lines, i, lx) ==
    IF i > Len(lines) \/ lx.err # "" THEN lx.tokens
    ELSE LexTextFrom(file_name, lines, i + 1,
                     generate_tokens([line |-> lines[i], beyond |-> <<>>, line_num |-> i,
                                      file_name |-> file_name],
                                     lx.tokens, lx.inside))

LexText(file_name, lines) ==
    LexTextFrom(file_name, lines, 1, [tokens |-> <<>>, inside |-> FALSE, err |-> ""])

\* a line with every character of a multi-line comment, from its /* to the
\* first */ that follows, replaced by a space; a // outside a multi-line
\* comment ends the line. inside tells whether the line starts in a comment.
RECURSIVE StripLine(_, _, _, _)
StripLine(line, i, inside, out) ==
    IF i > Len(line) THEN [line |-> out, inside |-> inside]
    ELSE IF inside
    THEN IF i < Len(line) /\ line[i] = "*" /\ line[i + 1] = "/"
         THEN StripLine(line, i + 2, FALSE, out \o <<" ", " ">>)
         ELSE StripLine(line, i + 1, TRUE, Append(out, " "))
    ELSE IF i < Len(line) /\ line[i] = "/" /\ line[i + 1] = "/"
    THEN [line |-> out \o SubSeq(line, i, Len(line)), inside |-> FALSE]
    ELSE IF i < Len(line) /\ line[i] = "/" /\ line[i + 1] = "*"
    THEN StripLine(line, i + 2, TRUE, out \o <<" ", " ">>)
    ELSE StripLine(line, i + 1, FALSE, Append(out, line[i]))

RECURSIVE StripCommentsFrom(_, _, _, _)
StripCommentsFrom(lines, i, stripped, out) ==
    IF i > Len(lines) THEN Append(out, stripped.line)
    ELSE StripCommentsFrom(lines, i + 1, StripLine(lines[i], 1, stripped.inside, <<>>),
                           Append(out, stripped.line))

\* the lines of a file without its multi-line comments
StripComments(lines) ==
    IF lines = <<>> THEN <<>>
    ELSE StripCommentsFrom(lines, 2, StripLine(lines[1], 1, FALSE, <<>>), <<>>)

\* the tokens the lexer returned
LexerTokens == lexers[1].tokens

\* C8: once the lexer sees /* outside a literal, every character up to and
\* including the first following */, on the same line or a later one, is
\* discarded and makes no token, and tokenizing resumes right after that */,
\* whatever the comment holds: the tokens of a file are those of the file
\* with its comments blanked out.
C8_CommentDiscarded ==
    (lex_pc = "done" /\ DOMAIN files = {RootFile})
        => LexerTokens = LexText(RootFile, StripComments(files[RootFile]))

\* the string of a sequence of characters
RECURSIVE Join(_)
Join(chars) == IF chars = <<>> THEN "" ELSE Head(chars) \o Join(Tail(chars))

HasDirective(line) == \E i \in 1..Len(line) : line[i] = "#"

\* where the directive of a line starts
DirectiveAt(line) ==
    CHOOSE i \in 1..Len(line) : line[i] = "#" /\ \A j \in 1..(i - 1) : line[j] # "#"

TextBefore(line) == SubSeq(line, 1, DirectiveAt(line) - 1)

\* the directive of the line is #import "p"
ImportsOnLine(line, p) ==
    /\ HasDirective(line)
    /\ \E d \in {DirectiveAt(line)} : \E directive \in {ImportDirective(p)} :
           /\ d + Len(directive) - 1 <= Len(line)
           /\ SubSeq(line, d, d + Len(directive) - 1) = directive

ImportedBy(line) == CHOOSE p \in DOMAIN PathChars : ImportsOnLine(line, p)

\* the tokens of a piece of text of line i of file f
TokensOfText(f, i, text) ==
    generate_tokens([line |-> text, beyond |-> <<>>, line_num |-> i, file_name |-> f],
                    <<>>, FALSE).tokens

\* the token sequence C9 states for file f from line i on: for a line with a
\* directive, the tokens of the text before it and then those of the file it
\* names; for any other line the tokens of the line
RECURSIVE ExpectedTokens(_, _, _)
ExpectedTokens(f, i, depth) ==
    IF depth = 0 \/ f \notin DOMAIN files THEN <<>>
    ELSE IF i > Len(files[f]) THEN <<>>
    ELSE IF HasDirective(files[f][i])
    THEN TokensOfText(f, i, TextBefore(files[f][i]))
             \o ExpectedTokens(ImportedBy(files[f][i]), 1, depth - 1)
             \o ExpectedTokens(f, i + 1, depth)
    ELSE TokensOfText(f, i, files[f][i]) \o ExpectedTokens(f, i + 1, depth)

\* the lexeme of the token stands on the line of the file the token names,
\* at or before the position it names
PhysicallyReadFrom(t) ==
    /\ t.file_name \in DOMAIN files
    /\ t.line_num \in 1..Len(files[t.file_name])
    /\ \E i, j \in 1..Len(files[t.file_name][t.line_num]) :
           /\ i <= j
           /\ j <= t.position + 1
           /\ Join(SubSeq(files[t.file_name][t.line_num], i, j)) = t.val

\* the files are those of the inputs with imports
ImportFamily == DOMAIN files # {RootFile}

Imports(f, p) ==
    /\ f \in DOMAIN files
    /\ \E i \in 1..Len(files[f]) : ImportsOnLine(files[f][i], p)

\* a.em contains #import "b.em" and b.em contains #import "a.em"
MutualImport == Imports("a.em", "b.em") /\ Imports("b.em", "a.em")

\* every file that is named by a directive exists
NoMissingImport ==
    \A f \in DOMAIN files : \A p \in DOMAIN PathChars : Imports(f, p) => p \in DOMAIN files

\* the pairs (f, p) of a file f and a path p that a directive of f names
ImportEdges == {e \in (DOMAIN PathChars) \X (DOMAIN PathChars) : Imports(e[1], e[2])}

\* the pairs of R, and those joined of two pairs of R
Twice(R) ==
    R \cup {e \in (DOMAIN PathChars) \X (DOMAIN PathChars) :
               \E m \in DOMAIN PathChars : <<e[1], m>> \in R /\ <<m, e[2]>> \in R}

\* the pairs (f, p) with a chain of directives from f to p: a chain has at
\* most as many steps as there are paths, which are four
ImportChains(edges) == CHOOSE c \in {Twice(r) : r \in {Twice(edges)}} : TRUE

\* no chain of directives that starts in the file handed to the compiler
\* comes back to a file of the chain
AcyclicImports ==
    \A edges \in {ImportEdges} :
        \A chains \in {ImportChains(edges)} :
            \A f \in DOMAIN PathChars :
                (f = RootFile \/ <<RootFile, f>> \in chains) => <<f, f>> \notin chains

\* C10: import cycles are not detected. When a.em contains #import "b.em"
\* and b.em contains #import "a.em", lexing a.em never completes, and
\* perform_lexical_analysis re-enters itself as deep as the model follows it;
\* for every acyclic import graph of finite files lexing terminates, with the
\* tokens or with an error.
C10_ImportCycles ==
    /\ [](MutualImport => lex_pc # "done")
    /\ ((MutualImport /\ NoMissingImport) ~> (Len(lexers) = MaxImportDepth))
    /\ (AcyclicImports ~> (lex_pc \in {"done", "error"}))

\* a.em and b.em import each other and a.em is entered for the second time
C10_Witness ==
    /\ MutualImport
    /\ lex_pc = "run"
    /\ Len(lexers) >= 3
    /\ lexers[1].file_name = "a.em"
    /\ lexers[2].file_name = "b.em"
    /\ lexers[3].file_name = "a.em"

\* ------------------------------------------------------------------------
\*                     the driver (main.cpp: compile, main)
\* ------------------------------------------------------------------------
\* A file on the command line is a record [has_extension, defines_main,
\* frontend]: whether its name ends in .em, whether its text defines a
\* function named main, and the front-end stage that ends the process with
\* exit(1) while the file is compiled ("" when none does). The state of main
\* is the record d:
\*   entry_point_found, module_list   the locals of main
\*   stderr      the diagnostics written, in order
\*   stages      what has run, in order: <<i, stage>> for file i
\*   exited, status   the process has ended, and its exit status

\* ---- numeric literals (C13)

\* the numeric-literal tokens the lexer has made so far
NumericTokens ==
    {CurrentLexer.tokens[k].val :
        k \in {j \in 1..Len(CurrentLexer.tokens) :
                  CurrentLexer.tokens[j].type = TOKEN_NUMERIC_LITERAL}}

DotsIn(chars) == Cardinality({i \in 1..Len(chars) : chars[i] = "."})

\* the strings of the pieces of a line that hold at most one dot
OneDotPieces(line) ==
    {Join(SubSeq(line, t[1], t[2])) :
        t \in {u \in (1..Len(line)) \X (1..Len(line)) :
                  u[1] <= u[2] /\ DotsIn(SubSeq(line, u[1], u[2])) <= 1}}

OneDotTexts ==
    UNION {OneDotPieces(files[f][i]) : <<f, i>> \in {u \in (DOMAIN files) \X (1..MaxFileLines) : u[2] <= Len(files[u[1]])}}

\* the line has a run of digits and dots that starts with a digit and holds
\* more than one dot
HasMultiDotRun(line) ==
    \E i, j, k \in 1..Len(line) :
        /\ i < j /\ j < k
        /\ is_numeric(line[i]) /\ line[j] = "." /\ line[k] = "."
        /\ \A m \in i..k : is_numeric(line[m]) \/ line[m] = "."

NumericFamily == DOMAIN files = {RootFile} /\ files[RootFile] \in NumericFiles

\* C13: a digit-led run that contains more than one `.` is rejected by the
\* lexer with a syntax error; a numeric-literal token never contains more
\* than one `.`.
C13_OneDotPerLiteral ==
    /\ NumericTokens \subseteq OneDotTexts
    /\ (NumericFamily /\ CurrentLexer.line_num = 1 /\ HasMultiDotRun(files[RootFile][1]))
           => lex_pc = "error"

\* fprintf(stderr, message); exit(1);
driver_exit(d, message) == [d EXCEPT !.stderr = Append(@, message), !.exited = TRUE, !.status = 1]

\* a stage of the compilation of file i starts
run_stage(d, i, stage) == [d EXCEPT !.stages = Append(@, <<i, stage>>)]

\* bool entry_point_found = false; of struct Lexer, as it is after
\* perform_lexical_analysis and parse_tokens: no statement assigns it
Lexer_entry_point_found(file) == FALSE

\* module_list->push_back(...) under module_list_mutex
module_list_push_back_Dropped(module_list, i) == module_list

module_list_push_back(module_list, i) == Append(module_list, i)

\* compile() from the locked blocks on (main.cpp:343-360)
compile__collect(d, i) ==
    [d EXCEPT !.module_list = module_list_push_back(@, i)]

\* compile() from `if (lexer->entry_point_found)` on (main.cpp:326-332)
compile__entry_point(d, i, file) ==
    IF Lexer_entry_point_found(file)
    THEN IF d.entry_point_found
         THEN driver_exit(d, "ERROR: Duplicate entry points found.")
         ELSE compile__collect([d EXCEPT !.entry_point_found = TRUE], i)
    ELSE compile__collect(d, i)

\* emit_llvm_ir(ast, ...) for file i
compile__emit(d, i, file) ==
    IF file.frontend = "emitter" THEN driver_exit(d, "IR ERROR")
    ELSE compile__entry_point(d, i, file)

\* parse_tokens(lexer) for file i
compile__parse(d, i, file) ==
    IF file.frontend = "parser" THEN driver_exit(d, "SYNTAX ERROR (parser)")
    ELSE compile__emit(run_stage(d, i, "emitter"), i, file)

\* perform_lexical_analysis(file_name) for file i
compile__lex(d, i, file) ==
    IF file.frontend = "lexer" THEN driver_exit(d, "SYNTAX ERROR (lexer)")
    ELSE compile__parse(run_stage(d, i, "parser"), i, file)

\* compile(argv[i], ...)
compile(d, i, file) ==
    IF ~file.has_extension THEN driver_exit(d, "ERROR: Invalid file type.")
    ELSE compile__lex(run_stage(d, i, "lexer"), i, file)

\* main() after the loop over the files (main.cpp:445-508): the check of the
\* entry point, then the relocation of the modules, the linker and, unless
\* -ll was given, the backend
main__backend(d, make_output) ==
    IF ~d.entry_point_found THEN driver_exit(d, "ERROR: No entry point (main) found.")
    ELSE [run_stage(d, 0, IF make_output THEN "backend" ELSE "link")
             EXCEPT !.exited = TRUE, !.status = 0]

\* ---- inputs
MaxFiles == 3

\* the kinds of file: a name without .em, or a .em file with or without a
\* main and with or without an error that a stage of the front end finds
InputFiles ==
    {[has_extension |-> FALSE, defines_main |-> FALSE, frontend |-> ""]}
        \cup [has_extension : {TRUE}, defines_main : BOOLEAN,
              frontend : {"", "lexer", "parser", "emitter"}]

CommandLines == UNION {[1..n -> InputFiles] : n \in 0..MaxFiles}

InitDriver ==
    /\ argv \in CommandLines
    /\ make_output_file \in BOOLEAN
    /\ file_index = 1
    /\ driver = DriverNew
    /\ driver_pc = "start"
    /\ ParserIdle
    /\ SymIdle
    /\ EmitIdle
    /\ LexIdle
    /\ SmapIdle

\* main() up to the loop over the files: if (argc < 2)
CheckArguments ==
    /\ driver_pc = "start"
    /\ IF Len(argv) = 0
       THEN /\ driver' = driver_exit(driver, "ERROR: Provide the path of the file to be compiled.")
            /\ driver_pc' = "exit"
       ELSE /\ driver' = driver
            /\ driver_pc' = "compile"
    /\ UNCHANGED <<argv, make_output_file, file_index, notDriverVars>>

\* one turn of the loop of main: compile(argv[i], ...)
CompileFile ==
    /\ driver_pc = "compile"
    /\ file_index <= Len(argv)
    /\ \E r \in {compile(driver, file_index, argv[file_index])} :
           /\ driver' = r
           /\ driver_pc' = IF r.exited THEN "exit" ELSE "compile"
           /\ file_index' = IF r.exited THEN file_index ELSE file_index + 1
    /\ UNCHANGED <<argv, make_output_file, notDriverVars>>

\* main() after the loop
FinishBuild ==
    /\ driver_pc = "compile"
    /\ file_index > Len(argv)
    /\ driver' = main__backend(driver, make_output_file)
    /\ driver_pc' = "exit"
    /\ UNCHANGED <<argv, make_output_file, file_index, notDriverVars>>

NextDriver == CheckArguments \/ CompileFile \/ FinishBuild

SpecDriver == InitDriver /\ [][NextDriver]_vars

\* ------------------------------------------------------------------------
\*                       properties of the driver
\* ------------------------------------------------------------------------
\* the files of the command line that define main
FilesWithMain == {i \in 1..Len(argv) : argv[i].defines_main}

\* every file is a .em file in which no stage of the front end finds an error
FrontEndClean ==
    \A i \in 1..Len(argv) : argv[i].has_extension /\ argv[i].frontend = ""

\* the driver went on behind the check of the entry point
Accepted == driver.exited /\ driver.status = 0

\* C11: the driver accepts a set of input files only if exactly one of them
\* defines main: with two or more files that define it the build ends with
\* the error for duplicate entry points, with none it ends with the error for
\* no entry point, in whatever order the files are compiled.
C11_ExactlyOneEntryPoint ==
    (driver_pc = "exit" /\ Len(argv) > 0 /\ FrontEndClean)
        => /\ Accepted => Cardinality(FilesWithMain) = 1
           /\ Cardinality(FilesWithMain) >= 2
                  => driver.stderr = <<"ERROR: Duplicate entry points found.">>
           /\ Cardinality(FilesWithMain) = 0
                  => driver.stderr = <<"ERROR: No entry point (main) found.">>

\* a program in which there is nothing to diagnose: .em files without an
\* error for the front end, one of which defines main
NoDiagnosticProgram ==
    Len(argv) > 0 /\ FrontEndClean /\ Cardinality(FilesWithMain) = 1

\* the stages that have run
StagesRun == {driver.stages[k][2] : k \in 1..Len(driver.stages)}

\* C12: the compiler process exits with status 0 for a program that raises
\* no diagnostic and with a non-zero status for a program that raises one in
\* any stage; after a diagnostic no later stage runs, and the backend never.
C12_ExitStatus ==
    driver_pc = "exit"
        => /\ NoDiagnosticProgram => (driver.status = 0 /\ driver.stderr = <<>>)
           /\ driver.stderr # <<>>
                  => /\ driver.status # 0
                     /\ Len(driver.stderr) = 1
                     /\ "backend" \notin StagesRun /\ "link" \notin StagesRun
                     /\ \A i \in 1..Len(argv) :
                            argv[i].has_extension /\ argv[i].frontend # ""
                                => \A k \in 1..Len(driver.stages) :
                                       /\ driver.stages[k][1] <= i
                                       /\ driver.stages[k][1] = i /\ k < Len(driver.stages)
                                              => driver.stages[k][2] # argv[i].frontend

BlocksOfFunction(fn) == {b \in 1..Len(ir.blocks) : ir.blocks[b].fn = fn}

\* the emission of the body whose end the history entry e records did not
\* end with a return statement: generate_block_ir ran through the statements
\* of the body, or stopped at a break or continue
BodyWithoutReturn(e) == ~e.ret

\* the instructions of function fn created after instruction number nv
CreatedAfter(fn, nv) ==
    UNION { {i \in InstructionsOf(b) : i.id > nv} : b \in BlocksOfFunction(fn) }

\* C21: a non-prototype void function whose body did not end with a return
\* gets exactly one `ret void`, appended at the final insertion point; a void
\* function with an empty body is the single entry block ending in
\* `ret void`; a prototype has no basic block.
C21_ImplicitReturnVoid ==
    /\ \A k \in LogEntries("bodyend") :
           LET e == ir.log[k] IN
           (ir.funcs[e.fn].ret = "void" /\ BodyWithoutReturn(e))
               => /\ Len(ir.blocks[e.ip].instrs) = e.len + 1
                  /\ ir.blocks[e.ip].instrs[e.len + 1] = Instr(e.nv + 1, "ret", "void", <<>>, <<>>)
                  /\ CreatedAfter(e.fn, e.nv) = {Instr(e.nv + 1, "ret", "void", <<>>, <<>>)}
                  /\ FunctionAst(e.fn).block = <<>>
                         => /\ BlocksOfFunction(e.fn) = {e.ip}
                            /\ ir.blocks[e.ip].name = "entry"
                            /\ FunctionAst(e.fn).params = <<>>
                                   => Len(ir.blocks[e.ip].instrs) = 1
    /\ \A fn \in 1..Len(ir.funcs) :
           ir.funcs[fn].proto => BlocksOfFunction(fn) = {}

\* a void function whose body ends in a block other than the entry block,
\* behind a prototype
C21_Witness ==
    /\ emit_pc = "done"
    /\ \E fn \in 1..Len(ir.funcs) : ir.funcs[fn].proto
    /\ \E k \in LogEntries("bodyend") :
           /\ ir.funcs[ir.log[k].fn].ret = "void"
           /\ ~ir.log[k].ret
           /\ ir.log[k].len > 0
           /\ Len(ir.blocks[ir.log[k].ip].instrs) = ir.log[k].len + 1

\* the names that function number fn can refer to: its parameters and the
\* globals of the module
DeclaredNames(fn) ==
    {FunctionAst(fn).params[i].name : i \in 1..Len(FunctionAst(fn).params)}
    \cup {ir.globals[i].name : i \in 1..Len(ir.globals)}

\* the allocas of function number fn that were made for the given name
AllocasOf(fn, name) ==
    UNION { {i \in InstructionsOf(b) : i.op = "alloca" /\ i.args[1].id = name} :
            b \in BlocksOfFunction(fn) }

\* the storage of a name that function number fn declares once at most: its
\* alloca, and the global of that name when the function has none
StorageOf(fn, name) ==
    IF AllocasOf(fn, name) = {} THEN GlobalVal(name)
    ELSE InstVal("ptr", (CHOOSE i \in AllocasOf(fn, name) : TRUE).id)

\* the three instructions that a ++ or -- on the int at address x makes, the
\* first of them being instruction number id
IncDecInstructions(x, delta, id) ==
    { Instr(id, "load", "i32", <<x>>, <<>>),
      Instr(id + 1, "add", "i32", <<InstVal("i32", id), ConstVal("i32", delta)>>, <<>>),
      Instr(id + 2, "store", "void", <<InstVal("i32", id + 1), x>>, <<>>) }

\* C22: ++ / -- on an identifier x loads x, adds +1 / -1, stores the sum to
\* the storage of x and yields the sum when it is prefix, the loaded value
\* when it is postfix; on any other operand it ends with a fatal error and
\* emits no store.
C22_IncrementDecrement ==
    \A k \in LogEntries("incdec") :
        LET e == ir.log[k] IN
        /\ (e.expr.expr.expr_type = "EXPR_IDENT" /\ e.expr.expr.name \in DeclaredNames(e.fn))
               => /\ k < Len(ir.log)
                  /\ ir.log[k + 1].ev = "incdecend"
                  /\ ir.log[k + 1].nv = e.nv + 3
                  /\ IncDecInstructions(StorageOf(e.fn, e.expr.expr.name),
                                        IF e.expr.op = TOKEN_INCREMENT THEN 1 ELSE -1,
                                        e.nv + 1) \subseteq InstructionsOf(e.ip)
                  /\ ir.log[k + 1].val = IF e.expr.is_postfix THEN InstVal("i32", e.nv + 1)
                                                               ELSE InstVal("i32", e.nv + 2)
        /\ e.expr.expr.expr_type # "EXPR_IDENT"
               => /\ ir.err = "Cannot increment/decrement a non-lvalue expression)."
                  /\ k = Len(ir.log)
                  /\ ir.nv = e.nv

\* y = x--; has stored the value loaded from x, not the difference, to y
C22_Witness ==
    /\ emit_pc = "done"
    /\ \E k \in LogEntries("incdec") :
           /\ ir.log[k].expr = Unary(TOKEN_DECREMENT, VarX, TRUE)
           /\ Instr(ir.log[k].nv + 4, "store", "void",
                    <<InstVal("i32", ir.log[k].nv + 1), StorageOf(ir.log[k].fn, "y")>>, <<>>)
                  \in InstructionsOf(ir.log[k].ip)

\* ------------------------------------------------------------------------
\*                 properties of the lexer, continued
\* ------------------------------------------------------------------------
IsWordChar(c) == is_alpha(c) \/ is_numeric(c) \/ c = "_"

\* the maximal runs of digits, letters and underscores of a line from
\* character i on, outside string and character literals: curr is the run
\* being read, quote the quote that opened the literal being read
RECURSIVE WordRunsFrom(_, _, _, _, _)
WordRunsFrom(line, i, curr, quote, out) ==
    IF i > Len(line) THEN (IF curr # "" THEN Append(out, curr) ELSE out)
    ELSE IF quote # ""
    THEN WordRunsFrom(line, i + 1, "", IF line[i] = quote THEN "" ELSE quote, out)
    ELSE IF IsWordChar(line[i])
    THEN WordRunsFrom(line, i + 1, curr \o line[i], "", out)
    ELSE WordRunsFrom(line, i + 1, "",
                      IF line[i] \in {DOUBLE_QUOTE, SINGLE_QUOTE} THEN line[i] ELSE "",
                      IF curr # "" THEN Append(out, curr) ELSE out)

\* the runs of the lines of a file, in the order of the text
RECURSIVE WordRunsOf(_, _)
WordRunsOf(lines, i) ==
    IF i > Len(lines) THEN <<>>
    ELSE WordRunsFrom(lines[i], 1, "", "", <<>>) \o WordRunsOf(lines, i + 1)

WordTokenTypes ==
    {TOKEN_NUMERIC_LITERAL, TOKEN_BOOL_LITERAL, TOKEN_KEYWORD, TOKEN_DATA_TYPE, TOKEN_IDENTIFIER}

\* the texts of the tokens that the lexer made of runs
WordTokens ==
    LET made == SelectSeq(LexerTokens, LAMBDA t : t.type \in WordTokenTypes) IN
    [k \in 1..Len(made) |-> made[k].val]

RunFamily == DOMAIN files = {RootFile} /\ files[RootFile] \in RunFiles

\* C23: every maximal run of digits or of letters, digits and underscores
\* outside comments and literals makes exactly one token, whatever ends the
\* run: whitespace, a symbol, a quote, a bracket or the end of the line.
C23_OneTokenPerRun ==
    (RunFamily /\ lex_pc = "done") => WordTokens = WordRunsOf(files[RootFile], 1)

\* ------------------------------------------------------------------------
\*                 properties of the cursor of struct Lexer
\* ------------------------------------------------------------------------
LastTokenIndex == Len(tokens) - 1

\* C24: on a lexer that holds a token, whatever cursor operations have been
\* called, curr_token_index lies in 0 .. tokens.size() - 1; get_next_token
\* at the last token returns NULL and leaves the cursor where it was;
\* peek(k) returns NULL exactly when the cursor plus k is behind the last
\* token; peek_prev_token returns NULL exactly when the cursor is at 0.
C24_CursorInRange ==
    parse_pc = "cursor"
        => /\ curr_token_index \in 0..LastTokenIndex
           /\ (cursor_call.op = "get_next_token" /\ cursor_call.from = LastTokenIndex)
                  => (cursor_call.returned = NULL_TOKEN /\ curr_token_index = cursor_call.from)
           /\ cursor_call.op = "peek"
                  => /\ cursor_call.returned = NULL_TOKEN
                            <=> cursor_call.from + cursor_call.k > LastTokenIndex
                     /\ cursor_call.returned # NULL_TOKEN
                            => cursor_call.returned = tokens[cursor_call.from + cursor_call.k + 1]
           /\ cursor_call.op = "peek_prev_token"
                  => /\ cursor_call.returned = NULL_TOKEN <=> cursor_call.from = 0
                     /\ cursor_call.returned # NULL_TOKEN
                            => cursor_call.returned = tokens[cursor_call.from]

\* get_next_token has been called with the cursor at the last of several
\* tokens
C24_Witness ==
    /\ parse_pc = "cursor"
    /\ Len(tokens) > 1
    /\ cursor_call.op = "get_next_token"
    /\ cursor_call.from = LastTokenIndex
    /\ cursor_call.returned = NULL_TOKEN
    /\ curr_token_index = LastTokenIndex

\* the emitter has just finished a function definition with a body: the one
\* before emit_index, which made the last function of the module
FunctionFinished ==
    /\ emit_pc = "run"
    /\ emit_index > 1
    /\ program_ast[emit_index - 1].expr_type = "EXPR_FUNC_DEF"
    /\ ~program_ast[emit_index - 1].is_prototype

TerminatorOps == {"br", "condbr", "ret"}

\* block b ends with a terminator and holds no other one
WellTerminated(b) ==
    /\ ir.blocks[b].instrs # <<>>
    /\ \A i \in 1..Len(ir.blocks[b].instrs) :
           ir.blocks[b].instrs[i].op \in TerminatorOps <=> i = Len(ir.blocks[b].instrs)

\* C25: when the emitter has finished the body of a function that is not a
\* prototype, every basic block of the function ends with exactly one
\* terminator (br, conditional br or ret) and holds no instruction behind
\* it.
C25_BlocksTerminated ==
    FunctionFinished => \A b \in BlocksOfFunction(Len(ir.funcs)) : WellTerminated(b)

\* the blocks that hold a branch to block b
Predecessors(b) == {e[1] : e \in {d \in Edges : d[2] = b}}

\* the logical expressions of the history whose phi has been emitted
PhiEntries ==
    {k \in LogEntries("logical") :
        /\ ir.blocks[ir.log[k].end].instrs # <<>>
        /\ ir.blocks[ir.log[k].end].instrs[1].op = "phi"}

\* the two incoming blocks of the phi at the head of block b
IncomingBlocks(b) == ir.blocks[b].instrs[1].targets

\* C26: the two incoming blocks of the phi of an && or || are the two
\* predecessors of its end block: first the block that holds the conditional
\* branch on the left operand, then the block that holds the branch emitted
\* behind the right operand.
C26_PhiIncomingBlocks ==
    \A k \in PhiEntries :
        LET e == ir.log[k] IN
        /\ {IncomingBlocks(e.end)[1], IncomingBlocks(e.end)[2]} = Predecessors(e.end)
        /\ IncomingBlocks(e.end)[1] = e.cond_block
        /\ <<IncomingBlocks(e.end)[2], e.end, "br">> \in Edges

\* how often the node occurs in the expression
RECURSIVE Occurrences(_, _)
Occurrences(expr, node) ==
    (IF expr = node THEN 1 ELSE 0)
    + CASE expr.expr_type = "EXPR_BINARY" ->
               Occurrences(expr.left, node) + Occurrences(expr.right, node)
        [] expr.expr_type = "EXPR_UNARY" -> Occurrences(expr.expr, node)
        [] expr.expr_type = "EXPR_RETURN" -> Occurrences(expr.value, node)
        [] OTHER -> 0

\* how often the emitter has emitted the node in function number fn: the
\* call instructions of a call, the history entries of a ++ or --
EmittedTimes(fn, node) ==
    IF node.expr_type = "EXPR_FUNC_CALL"
    THEN Cardinality(UNION { {i \in InstructionsOf(b) :
                                 /\ i.op = "call"
                                 /\ i.args[1] = ConstVal("function", node.function_name)} :
                             b \in BlocksOfFunction(fn) })
    ELSE Cardinality({k \in LogEntries("incdec") : ir.log[k].fn = fn /\ ir.log[k].expr = node})

BinaryFamily == program_ast \in BinaryPrograms

\* C27: the IR of each operand of a binary expression other than && and ||
\* is emitted once: a call or a ++ / -- in an operand is emitted as often as
\* it stands in the source, whether the left operand is an identifier or
\* not.
C27_OperandsEmittedOnce ==
    (BinaryFamily /\ FunctionFinished)
        => \A node \in {CallG, IncX, DecY} :
               EmittedTimes(Len(ir.funcs), node)
                   = Occurrences(FunctionAst(Len(ir.funcs)).block[1], node)

\* the statement at path q stands before the statement at path p, in the
\* block of p or in a block around it
StandsBefore(q, p) ==
    /\ Len(q) <= Len(p)
    /\ \A i \in 1..(Len(q) - 1) : q[i] = p[i]
    /\ q[Len(q)] < p[Len(q)]

\* the declarations of the name in function number fn that the statement at
\* the path can see
VisibleDeclarations(fn, path, name) ==
    {d \in LogEntries("stmt") :
        /\ ir.log[d].fn = fn
        /\ ir.log[d].expr.expr_type = "EXPR_DECL"
        /\ ir.log[d].expr.variable_name = name
        /\ StandsBefore(ir.log[d].path, path)}

\* the innermost of them, and the last one of that block
NearestDeclaration(D) ==
    CHOOSE d \in D :
        \A c \in D :
            \/ Len(ir.log[c].path) < Len(ir.log[d].path)
            \/ /\ Len(ir.log[c].path) = Len(ir.log[d].path)
               /\ ir.log[c].path[Len(ir.log[c].path)] <= ir.log[d].path[Len(ir.log[d].path)]

ParameterNames(fn) ==
    {FunctionAst(fn).params[i].name : i \in 1..Len(FunctionAst(fn).params)}

\* the alloca of a parameter: the first alloca of its name that the function
\* made
ParameterAlloca(fn, name) ==
    CHOOSE i \in AllocasOf(fn, name) : \A j \in AllocasOf(fn, name) : i.id <= j.id

\* what the name stands for in the statement at the path of function number
\* fn: the nearest declaration around it, the parameter, the global, nothing
ScopedStorage(fn, path, name) ==
    IF VisibleDeclarations(fn, path, name) # {}
    THEN InstVal("ptr", ir.log[NearestDeclaration(VisibleDeclarations(fn, path, name))].nv + 1)
    ELSE IF name \in ParameterNames(fn) THEN InstVal("ptr", ParameterAlloca(fn, name).id)
    ELSE IF \E i \in 1..Len(ir.globals) : ir.globals[i].name = name THEN GlobalVal(name)
    ELSE NullVal

\* the statements of the history that assign 1 to a name
Assignments ==
    {k \in LogEntries("stmt") :
        /\ ir.log[k].expr.expr_type = "EXPR_BINARY"
        /\ ir.log[k].expr.op = TOKEN_ASSIGN
        /\ ir.log[k].expr.left.expr_type = "EXPR_IDENT"
        /\ ir.log[k].expr.right = One}

\* the pointers that the stores of the statement of history entry e go to
StoredTo(e) ==
    {i.args[2] : i \in {j \in InstructionsOf(e.ip) : j.op = "store" /\ j.id = e.nv + 1}}

ScopeFamily == program_ast \in ScopePrograms

\* C28: an identifier in a function stands for the storage of the nearest
\* declaration of its name around it in that function, or else for the
\* global of that name; a declaration in an inner block, and a local or
\* parameter of a function emitted before, make no difference once that
\* block or function has ended.
C28_ScopedResolution ==
    ScopeFamily
        => \A k \in Assignments :
               LET e == ir.log[k] IN
               StoredTo(e) = IF IsNull(ScopedStorage(e.fn, e.path, e.expr.left.name)) THEN {}
                             ELSE {ScopedStorage(e.fn, e.path, e.expr.left.name)}

\* ------------------------------------------------------------------------
\*        specification of the hash map (struct smap, data_structures.h)
\* ------------------------------------------------------------------------
\* the keys inserted: the first three hash to one slot of a table of 8 and
\* the first two to one slot of a table of 16
SmapKeyList == <<"a", "q", "i", "b", "c", "x", "g", "f", "z", "h", "n", "s", "y">>

\* the number of different keys inserted
MaxKeys == 7

SmapKeys == {SmapKeyList[i] : i \in 1..MaxKeys}

\* the values inserted: two pointers, to tell the last insert of a key from
\* an earlier one
SmapValues == {[ptr |-> "p1"], [ptr |-> "p2"]}

\* every map of the source is constructed with the default capacity
InitSmap ==
    /\ table = smap(SMAP_CAPACITY_INIT)
    /\ inserted = <<>>
    /\ ParserIdle
    /\ SymIdle
    /\ EmitIdle
    /\ LexIdle
    /\ DriverIdle

\* a call of insert(const std::string& key, const T& value)
SmapInsert ==
    \E key \in SmapKeys, value \in SmapValues :
        /\ table' = smap_insert(table, key, value)
        /\ inserted' = (key :> value) @@ inserted
        /\ UNCHANGED notSmapVars

NextSmap == SmapInsert

SpecSmap == InitSmap /\ [][NextSmap]_vars

\* ------------------------------------------------------------------------
\*                 properties of the hash map
\* ------------------------------------------------------------------------
\* the keys looked up: those inserted and those never inserted
LookupKeys == {SmapKeyList[i] : i \in 1..Len(SmapKeyList)}

\* the value of the most recent insert of the key, NULL if there was none
LatestInsert(key) == IF key \in DOMAIN inserted THEN inserted[key] ELSE NULL_VALUE

\* the slot (0-based) that holds the key
SlotOf(key) ==
    CHOOSE i \in 0..(table.capacity - 1) :
        table.data[i + 1].occupied /\ table.data[i + 1].key = key

\* the slot (0-based) at which the probing for the key starts
HomeSlot(key) == BitAnd(fnv1a_hash(key), table.capacity - 1)

\* C29: whatever the inserts, resizes and collisions so far, operator[]
\* returns for every key the value of the most recent insert of that key,
\* and NULL for a key that was never inserted
C29_LookupLatestInsert ==
    \A key \in LookupKeys : smap_lookup(table, key) = LatestInsert(key)

\* the map was resized, holds a key that a collision moved away from its
\* home slot, and is asked for a key never inserted whose home slot is taken
C29_Witness ==
    /\ table.capacity > SMAP_CAPACITY_INIT
    /\ \E key \in DOMAIN inserted : SlotOf(key) # HomeSlot(key)
    /\ \E key \in LookupKeys \ DOMAIN inserted : table.data[HomeSlot(key) + 1].occupied
    /\ \A key \in DOMAIN inserted : smap_lookup(table, key) = inserted[key]

\* the slots that hold a pair
OccupiedSlots == {i \in 1..table.capacity : table.data[i].occupied}

RECURSIVE IsPowerOfTwo(_)
IsPowerOfTwo(n) == n = 1 \/ (n > 1 /\ n % 2 = 0 /\ IsPowerOfTwo(n \div 2))

\* the probing loops of insert and operator[] leave at an unoccupied slot or
\* at the key within capacity steps from slot index
RECURSIVE ProbeTerminates(_, _, _)
ProbeTerminates(index, key, steps) ==
    /\ steps <= table.capacity
    /\ \/ ~table.data[index + 1].occupied
       \/ table.data[index + 1].key = key
       \/ ProbeTerminates(BitAnd(index + 1, table.capacity - 1), key, steps + 1)

\* C30: after every insert the size is the number of distinct keys inserted,
\* the capacity is a power of two, the size is at most three quarters of the
\* capacity, a slot is unoccupied and the probing for every key, present or
\* absent, terminates
C30_LoadFactor ==
    /\ table.size = Cardinality(DOMAIN inserted)
    /\ table.size = Cardinality(OccupiedSlots)
    /\ IsPowerOfTwo(table.capacity)
    /\ 4 * table.size <= 3 * table.capacity
    /\ OccupiedSlots # 1..table.capacity
    /\ \A key \in LookupKeys : ProbeTerminates(HomeSlot(key), key, 1)

\* the map was resized and holds more keys than three quarters of its first
\* capacity
C30_Witness ==
    /\ table.capacity = 2 * SMAP_CAPACITY_INIT
    /\ 4 * table.size > 3 * SMAP_CAPACITY_INIT
    /\ table.size = Cardinality(DOMAIN inserted)

====
